---- MODULE Spec2Model ----
(***************************************************************************)
(* Lead pipeline of the sales connector: phone/email normalisation, the    *)
(* filter chain, the identity deduplicator, the round-robin assignment and *)
(* the order of the stages in the Fetch handlers, modelled from            *)
(* src/core/utils.py, src/core/roster.py, src/clients/hubspot_client.py    *)
(* and src/workflows/{reminders,old_leads,manager}.py.                     *)
(*                                                                         *)
(* Python strings are modelled as sequences of one-character strings, so   *)
(* that strip(), lower(), split() and concatenation are computed rather    *)
(* than assumed.  A missing value (None / NaN) is the model value NaN.     *)
(***************************************************************************)
EXTENDS Integers, Sequences, FiniteSets, TLC

\* ------------------------------------------------------------------------
\* Bounds of the model
\* ------------------------------------------------------------------------
MaxDeals    == 3
MaxCrmDeals == 2
MaxSiblings == 2

\* ------------------------------------------------------------------------
\* Strings
\* ------------------------------------------------------------------------
NaN == << "NaN" >>

DigitChars == {"0", "1", "2", "3", "4", "5", "6", "7", "8", "9"}

UpperChars == << "A", "B", "C", "D", "E", "F", "G", "H", "I", "J", "K", "L", "M",
                 "N", "O", "P", "Q", "R", "S", "T", "U", "V", "W", "X", "Y", "Z" >>

LowerChars == << "a", "b", "c", "d", "e", "f", "g", "h", "i", "j", "k", "l", "m",
                 "n", "o", "p", "q", "r", "s", "t", "u", "v", "w", "x", "y", "z" >>

\* the position of every upper-case letter in the alphabet
UpperIndex ==
    [c \in {UpperChars[i] : i \in 1..26} |-> CHOOSE i \in 1..26 : UpperChars[i] = c]

\* str.lower() on one character
LowerChar(c) == IF c \in DOMAIN UpperIndex THEN LowerChars[UpperIndex[c]] ELSE c

RECURSIVE LowerStr(_)
\* str.lower()
LowerStr(s) ==
    IF s = << >> THEN << >> ELSE << LowerChar(Head(s)) >> \o LowerStr(Tail(s))

RECURSIVE LStripStr(_)
\* str.lstrip()
LStripStr(s) == IF s # << >> /\ Head(s) = " " THEN LStripStr(Tail(s)) ELSE s

RECURSIVE RStripStr(_)
\* str.rstrip()
RStripStr(s) ==
    IF s # << >> /\ s[Len(s)] = " " THEN RStripStr(SubSeq(s, 1, Len(s) - 1)) ELSE s

\* str.strip(): drop leading and trailing whitespace
StripStr(s) == RStripStr(LStripStr(s))

\* s.startswith(p)
StartsWith(s, p) == Len(s) >= Len(p) /\ SubSeq(s, 1, Len(p)) = p

\* p in s (substring test)
Contains(s, p) ==
    \E i \in 0..(Len(s) - Len(p)) : SubSeq(s, i + 1, i + Len(p)) = p

\* s.split("@")[-1]: the text after the last "@", the whole text without one
LastAtSegment(s) ==
    LET ats == {i \in 1..Len(s) : s[i] = "@"}
    IN  IF ats = {} THEN s
        ELSE LET last == CHOOSE i \in ats : \A j \in ats : j <= i
             IN  SubSeq(s, last + 1, Len(s))

\* ''.join(ch for ch in s if ch.isdigit())
\* a digit filter that lets blanks through
OnlyDigits_KeepBlanks(s) == SelectSeq(s, LAMBDA ch : ch \in DigitChars \cup {" "})

RECURSIVE OnlyDigits(_)
OnlyDigits(s) ==
    IF s = << >> THEN << >>
    ELSE IF Head(s) \in DigitChars THEN << Head(s) >> \o OnlyDigits(Tail(s))
         ELSE OnlyDigits(Tail(s))

\* a normaliser that accepts any run of digits starting with '4'
normalize_phone_AnyLength(raw) ==
    IF raw = NaN THEN << >>
    ELSE LET s      == StripStr(raw)
             digits == IF StartsWith(s, << "+" >>) THEN << "+" >> \o OnlyDigits(s)
                       ELSE OnlyDigits(s)
         IN  IF StartsWith(digits, << "+", "6", "1" >>) /\ Len(digits) = 12 THEN digits
             ELSE IF StartsWith(digits, << "6", "1" >>) /\ Len(digits) = 11
                  THEN << "+" >> \o digits
             ELSE IF StartsWith(digits, << "0" >>) /\ Len(digits) = 10 /\ digits[2] = "4"
                  THEN << "+", "6", "1" >> \o Tail(digits)
             ELSE IF StartsWith(digits, << "4" >>) THEN << "+", "6", "1" >> \o digits
             ELSE << >>

\* a normaliser that returns the canonical shape without its '+'
normalize_phone_NoPlus(raw) ==
    IF raw = NaN THEN << >>
    ELSE LET s      == StripStr(raw)
             digits == IF StartsWith(s, << "+" >>) THEN << "+" >> \o OnlyDigits(s)
                       ELSE OnlyDigits(s)
         IN  IF StartsWith(digits, << "+", "6", "1" >>) /\ Len(digits) = 12 THEN Tail(digits)
             ELSE IF StartsWith(digits, << "6", "1" >>) /\ Len(digits) = 11
                  THEN << "+" >> \o digits
             ELSE IF StartsWith(digits, << "0" >>) /\ Len(digits) = 10 /\ digits[2] = "4"
                  THEN << "+", "6", "1" >> \o Tail(digits)
             ELSE IF StartsWith(digits, << "4" >>) /\ Len(digits) = 9
                  THEN << "+", "6", "1" >> \o digits
             ELSE << >>

\* ------------------------------------------------------------------------
\* normalize_phone
\* ------------------------------------------------------------------------
normalize_phone(raw) ==
    IF raw = NaN THEN << >>
    ELSE
      LET s      == StripStr(raw)
          digits == IF StartsWith(s, << "+" >>) THEN << "+" >> \o OnlyDigits(s)
                    ELSE OnlyDigits(s)
      IN  IF StartsWith(digits, << "+", "6", "1" >>) /\ Len(digits) = 12 THEN digits
          ELSE IF StartsWith(digits, << "6", "1" >>) /\ Len(digits) = 11 THEN << "+" >> \o digits
          ELSE IF StartsWith(digits, << "0" >>) /\ Len(digits) = 10 /\ digits[2] = "4"
               THEN << "+", "6", "1" >> \o Tail(digits)
          ELSE IF StartsWith(digits, << "4" >>) /\ Len(digits) = 9
               THEN << "+", "6", "1" >> \o digits
          ELSE << >>

\* ------------------------------------------------------------------------
\* Program constants (src/config.py)
\* ------------------------------------------------------------------------
STAGE_ENQUIRY_ID   == "1119198251"
STAGE_BOOKED_ID    == "1119198252"
STAGE_CONDUCTED_ID == "1119198253"

ACTIVE_PURCHASE_STAGE_IDS ==
    { "8082239", "8082240", "8082241", "8082242", "8082243", "8406593",
      "14816089", "14804235", "14804236", "14804237", "14804238",
      "14804239", "14804240" }

\* a date is a day number >= 1; NoDate is a missing or unparseable date (None)
NoDate == 0

\* ------------------------------------------------------------------------
\* Small helpers on sequences of rows
\* ------------------------------------------------------------------------
RECURSIVE SelectIdx(_, _)
\* the indices of S, ascending, as a sequence
SelectIdx(S, n) ==
    IF n = 0 THEN << >>
    ELSE IF n \in S THEN Append(SelectIdx(S, n - 1), n)
         ELSE SelectIdx(S, n - 1)

RECURSIVE RowsUpTo(_, _, _)
RowsUpTo(df, S, n) ==
    IF n = 0 THEN << >>
    ELSE IF n \in S THEN Append(RowsUpTo(df, S, n - 1), df[n])
         ELSE RowsUpTo(df, S, n - 1)

\* df[mask]: the rows whose index is in S, in table order
RowsAt(df, S) == RowsUpTo(df, S, Len(df))

RECURSIVE Flatten(_)
Flatten(ss) == IF ss = << >> THEN << >> ELSE Head(ss) \o Flatten(Tail(ss))

\* ------------------------------------------------------------------------
\* prepare_deals: the derived columns the pipeline reads
\* ------------------------------------------------------------------------
prepare_deals(raw) ==
    LET phone_raw == IF raw.mobile # NaN THEN raw.mobile ELSE raw.phone
    IN  [ hs_object_id          |-> raw.hs_object_id,
          full_name             |-> IF raw.full_name = NaN THEN << >> ELSE raw.full_name,
          email                 |-> IF raw.email = NaN THEN << >> ELSE raw.email,
          phone_raw             |-> phone_raw,
          phone_norm            |-> normalize_phone(phone_raw),
          dealstage             |-> raw.dealstage,
          vehicle_make          |-> raw.vehicle_make,
          vehicle_model         |-> raw.vehicle_model,
          slot_date_prop        |-> raw.slot_date_prop,
          slot_date             |-> raw.slot_date,
          slot_time_param       |-> raw.slot_time_param,
          slot_time             |-> raw.slot_time,
          conducted_date_local  |-> raw.conducted_date_local,
          conducted_time_local  |-> raw.conducted_time_local,
          td_reminder_sms_sent  |-> raw.td_reminder_sms_sent ]

\* ------------------------------------------------------------------------
\* dedupe_users
\* ------------------------------------------------------------------------
\* work["email_l"]
email_l(r) == LowerStr(StripStr(r.email))

\* a key of the phone alone
user_key_PhoneOnly(r) == StripStr(r.phone_norm)

\* user_key built from the email as typed, without lower-casing it
user_key_RawEmail(r) == StripStr(r.phone_norm \o << "|" >> \o StripStr(r.email))

\* work["user_key"] = (phone_norm + "|" + email_l).strip()
user_key(r) == StripStr(r.phone_norm \o << "|" >> \o email_l(r))

RECURSIVE WithUserKey(_)
\* the table with its user_key column
WithUserKey(df) ==
    IF df = << >> THEN << >>
    ELSE << [row |-> Head(df), user_key |-> user_key(Head(df))] >> \o WithUserKey(Tail(df))

\* work = work[work["user_key"].astype(bool)]
WorkTable(df) ==
    LET keyed == WithUserKey(df)
    IN  RowsAt(keyed, {i \in 1..Len(keyed) : Len(keyed[i].user_key) > 0})

\* groupby("user_key", sort=False): the first row of every group, in order
GroupHeads(work) ==
    SelectIdx({i \in 1..Len(work) :
                 \A j \in 1..(i - 1) : work[j].user_key # work[i].user_key},
              Len(work))

RECURSIVE RowColumn(_)
RowColumn(keyed) ==
    IF keyed = << >> THEN << >> ELSE << Head(keyed).row >> \o RowColumn(Tail(keyed))

\* the rows of the group of work row i, in table order
GroupRows(work, i) ==
    RowColumn(RowsAt(work, {j \in 1..Len(work) : work[j].user_key = work[i].user_key}))

\* first_nonempty_str over a column of a group
first_nonempty_str(vals) ==
    LET usable == {k \in 1..Len(vals) :
                     /\ Len(StripStr(vals[k])) > 0
                     /\ LowerStr(StripStr(vals[k])) # << "n", "a", "n" >>}
    IN  IF usable = {} THEN << >>
        ELSE StripStr(vals[CHOOSE k \in usable : \A m \in usable : k <= m])

\* f"{make} {model}".strip() or "car"
CarText(r) ==
    LET c == StripStr(StripStr(r.vehicle_make) \o << " " >> \o StripStr(r.vehicle_model))
    IN  IF c = << >> THEN << "c", "a", "r" >> ELSE c

\* format_date_au(d): the date rendered as one token, "" for a missing date
format_date_au(d) == IF d = NoDate THEN << >> ELSE << ToString(d) >>

\* rel_date(d) relative to today's date
rel_date(d, today) ==
    IF d = NoDate THEN << >>
    ELSE LET diff == d - today
         IN  IF diff = 0 THEN << "today" >>
             ELSE IF diff = 1 THEN << "tomorrow" >>
             ELSE IF diff = -1 THEN << "yesterday" >>
             ELSE IF 1 < diff /\ diff <= 7 THEN << "in a few days" >>
             ELSE IF -7 <= diff /\ diff < -1 THEN << "a few days ago" >>
             ELSE IF 8 <= diff /\ diff <= 14 THEN << "next week" >>
             ELSE IF -14 <= diff /\ diff <= -8 THEN << "last week" >>
             ELSE << ToString(d) >>

\* the date d and the time t that dedupe_users reads from a row
WhenDate(r, use_conducted) ==
    IF use_conducted THEN r.conducted_date_local
    ELSE IF r.slot_date_prop # NoDate THEN r.slot_date_prop ELSE r.slot_date

WhenTime(r, use_conducted) ==
    IF use_conducted THEN r.conducted_time_local
    ELSE IF r.slot_time_param # << >> THEN r.slot_time_param ELSE r.slot_time

\* when_exact = f"{format_date_au(d)} {t}".strip()
WhenExactText(r, use_conducted) ==
    StripStr(format_date_au(WhenDate(r, use_conducted)) \o << " " >>
             \o WhenTime(r, use_conducted))

\* when_rel if t == "" else f"{when_rel} at {t}".strip()
WhenRelText(r, use_conducted, today) ==
    LET t   == WhenTime(r, use_conducted)
        rel == rel_date(WhenDate(r, use_conducted), today)
    IN  IF t = << >> THEN rel
        ELSE StripStr(rel \o << " ", "a", "t", " " >> \o t)

\* one item of a semicolon-joined list: its text and the row it was built from
Item(r, text) == [src |-> r.hs_object_id, text |-> text]

\* "; ".join([x for x in items if x]): the items of the joined string
JoinNonEmpty(items) ==
    RowsAt(items, {k \in 1..Len(items) : items[k].text # << >>})

\* StageHint that tests booked before conducted
StageHintOf_BookedFirst(stages_list) ==
    LET has(id) == \E k \in 1..Len(stages_list) : stages_list[k] = id
    IN  IF has(STAGE_BOOKED_ID) THEN "booked"
        ELSE IF has(STAGE_CONDUCTED_ID) THEN "conducted"
        ELSE IF has(STAGE_ENQUIRY_ID) THEN "enquiry"
        ELSE "unknown"

\* the StageHint of a group from its list of raw stage ids
StageHintOf(stages_list) ==
    LET has(id) == \E k \in 1..Len(stages_list) : stages_list[k] = id
    IN  IF has(STAGE_CONDUCTED_ID) THEN "conducted"
        ELSE IF has(STAGE_BOOKED_ID) THEN "booked"
        ELSE IF has(STAGE_ENQUIRY_ID) THEN "enquiry"
        ELSE "unknown"

\* the Identity Summary row of one group
SummaryRow(grp, use_conducted, today) ==
    LET n               == Len(grp)
        cars_list       == [k \in 1..n |-> Item(grp[k], CarText(grp[k]))]
        when_exact_list == [k \in 1..n |-> Item(grp[k], WhenExactText(grp[k], use_conducted))]
        when_rel_list   == [k \in 1..n |-> Item(grp[k], WhenRelText(grp[k], use_conducted, today))]
        stages_list     == [k \in 1..n |-> grp[k].dealstage]
        vehicle_details_list ==
            [k \in 1..n |-> [ make     |-> StripStr(grp[k].vehicle_make),
                              model    |-> StripStr(grp[k].vehicle_model),
                              stage_id |-> grp[k].dealstage ]]
    IN  [ CustomerName |-> first_nonempty_str([k \in 1..n |-> grp[k].full_name]),
          Phone        |-> first_nonempty_str([k \in 1..n |-> grp[k].phone_norm]),
          Email        |-> first_nonempty_str([k \in 1..n |-> grp[k].email]),
          DealsCount   |-> Len(JoinNonEmpty(cars_list)),
          Cars         |-> JoinNonEmpty(cars_list),
          WhenExact    |-> JoinNonEmpty(when_exact_list),
          WhenRel      |-> JoinNonEmpty(when_rel_list),
          StageHint    |-> StageHintOf(stages_list),
          VehicleDetails |-> vehicle_details_list ]

dedupe_users(df, use_conducted, today) ==
    LET work  == WorkTable(df)
        heads == GroupHeads(work)
    IN  [g \in 1..Len(heads) |->
            SummaryRow(GroupRows(work, heads[g]), use_conducted, today)]

\* ------------------------------------------------------------------------
\* dedupe_users_with_audit: the "collapsed during dedupe" table
\* ------------------------------------------------------------------------
DedupedUnder == << "D", "e", "d", "u", "p", "e", "d", " ", "u", "n", "d", "e", "r", " " >>

\* rep_name or rep_phone or rep_email
RepLabel(rep) ==
    IF StripStr(rep.full_name) # << >> THEN StripStr(rep.full_name)
    ELSE IF StripStr(rep.phone_norm) # << >> THEN StripStr(rep.phone_norm)
    ELSE StripStr(rep.email)

\* audit rows whose reason names the collapsed row instead of the representative
DroppedOfGroup_OwnLabel(grp) ==
    IF Len(grp) <= 1 THEN << >>
    ELSE [k \in 1..(Len(grp) - 1) |->
            [ hs_object_id |-> grp[k + 1].hs_object_id,
              full_name    |-> grp[k + 1].full_name,
              email        |-> grp[k + 1].email,
              phone_norm   |-> grp[k + 1].phone_norm,
              dealstage    |-> grp[k + 1].dealstage,
              Reason       |-> DedupedUnder \o RepLabel(grp[k + 1]) ]]

\* the audit rows of one group: every row after the first
DroppedOfGroup(grp) ==
    IF Len(grp) <= 1 THEN << >>
    ELSE [k \in 1..(Len(grp) - 1) |->
            [ hs_object_id |-> grp[k + 1].hs_object_id,
              full_name    |-> grp[k + 1].full_name,
              email        |-> grp[k + 1].email,
              phone_norm   |-> grp[k + 1].phone_norm,
              dealstage    |-> grp[k + 1].dealstage,
              Reason       |-> DedupedUnder \o RepLabel(grp[1]) ]]

dedupe_dropped_rows(df) ==
    LET work  == WorkTable(df)
        heads == GroupHeads(work)
    IN  Flatten([g \in 1..Len(heads) |-> DroppedOfGroup(GroupRows(work, heads[g]))])

\* ------------------------------------------------------------------------
\* Filter chain: column filters
\* ------------------------------------------------------------------------
\* a row of a "removed" table: the input row and its Reason column
Removed(r, reason) == [row |-> r, Reason |-> reason]

RECURSIVE WithReason(_, _)
WithReason(rows, reason) ==
    IF rows = << >> THEN << >>
    ELSE << Removed(Head(rows), reason) >> \o WithReason(Tail(rows), reason)

Cars24Domain  == << "c", "a", "r", "s", "2", "4", ".", "c", "o", "m" >>
YopmailDomain == << "y", "o", "p", "m", "a", "i", "l", ".", "c", "o", "m" >>

InternalReason ==
    << "I", "n", "t", "e", "r", "n", "a", "l", "/", "t", "e", "s", "t", " ",
       "e", "m", "a", "i", "l", " ", "d", "o", "m", "a", "i", "n" >>

\* the domain taken without lower-casing the email
EmailDom_CaseSensitive(r) == LastAtSegment(StripStr(r.email))

\* work["email"].astype(str).str.strip().str.lower().str.split("@").str[-1]
EmailDom(r) == LastAtSegment(LowerStr(StripStr(r.email)))

filter_internal_test_emails(df) ==
    IF df = << >> THEN [kept |-> df, removed |-> << >>]
    ELSE LET mask == {i \in 1..Len(df) : EmailDom(df[i]) \notin {Cars24Domain, YopmailDomain}}
         IN  [ kept    |-> RowsAt(df, mask),
               removed |-> WithReason(RowsAt(df, (1..Len(df)) \ mask), InternalReason) ]

\* str(x).lower() in ['yes', 'true'] if pd.notna(x) else False
\* the flag test without .lower()
SmsSent_CaseSensitive(r) ==
    IF r.td_reminder_sms_sent = NaN THEN FALSE
    ELSE r.td_reminder_sms_sent \in { << "y", "e", "s" >>, << "t", "r", "u", "e" >> }

\* str(x).lower() in ['yes', 'true'] if pd.notna(x) else False
SmsSent(r) ==
    IF r.td_reminder_sms_sent = NaN THEN FALSE
    ELSE LowerStr(r.td_reminder_sms_sent) \in { << "y", "e", "s" >>, << "t", "r", "u", "e" >> }

SmsSentReason == << "SMS reminder already sent (td_reminder_sms_sent = true)" >>

\* already-notified filter whose removed table matches the value 'true' only
filter_sms_already_sent_TrueOnly(df) ==
    IF df = << >> THEN [kept |-> df, removed |-> << >>]
    ELSE [ kept    |-> RowsAt(df, {i \in 1..Len(df) : ~SmsSent(df[i])}),
           removed |-> WithReason(
                         RowsAt(df, {i \in 1..Len(df) :
                                       /\ df[i].td_reminder_sms_sent # NaN
                                       /\ LowerStr(df[i].td_reminder_sms_sent)
                                            = << "t", "r", "u", "e" >>}),
                         SmsSentReason) ]

filter_sms_already_sent(df) ==
    IF df = << >> THEN [kept |-> df, removed |-> << >>]
    ELSE [ kept    |-> RowsAt(df, {i \in 1..Len(df) : ~SmsSent(df[i])}),
           removed |-> WithReason(RowsAt(df, {i \in 1..Len(df) : SmsSent(df[i])}),
                                  SmsSentReason) ]

FutureReason == << "Future TD booking date - likely upcoming appointment" >>

\* view_old: exclude rows whose td_booking_slot_date is after today
filter_future_booking(df, today) ==
    LET future_mask == {i \in 1..Len(df) :
                          df[i].slot_date_prop # NoDate /\ df[i].slot_date_prop > today}
    IN  [ kept    |-> RowsAt(df, (1..Len(df)) \ future_mask),
          removed |-> IF future_mask # {}
                      THEN WithReason(RowsAt(df, future_mask), FutureReason)
                      ELSE << >> ]

\* ------------------------------------------------------------------------
\* Filter chain: active-purchase cross-reference against the CRM
\* ------------------------------------------------------------------------
\* the CRM is a sequence of deals indexed by hs_object_id; "" is no appointment
BatchChunk  == 100
SearchLimit == 100

RECURSIVE SumSeq(_)
SumSeq(ns) == IF ns = << >> THEN 0 ELSE Head(ns) + SumSeq(Tail(ns))

\* the chunk of the batch read that carries position k of the id list
ChunkOf(k) == ((k - 1) \div BatchChunk) + 1

\* hs_batch_read_deals: the ids whose properties were read and the warnings
\* shown; failed is the set of chunks whose request fails
hs_batch_read_deals(crm, deal_ids, failed) ==
    LET chunks == {ChunkOf(k) : k \in 1..Len(deal_ids)}
    IN  [ ids      |-> {deal_ids[k] : k \in {j \in 1..Len(deal_ids) :
                                               /\ ChunkOf(j) \notin failed
                                               /\ deal_ids[j] \in 1..Len(crm)}},
          warnings |-> Cardinality(chunks \cap failed),
          raised   |-> FALSE ]

\* sibling search that lets a failed request propagate
get_deals_by_appointment_id_Raising(crm, appointment_id, fails) ==
    IF appointment_id = "" THEN [ids |-> << >>, warnings |-> 0, raised |-> FALSE]
    ELSE IF fails THEN [ids |-> << >>, warnings |-> 0, raised |-> TRUE]
    ELSE LET hits == SelectIdx({d \in 1..Len(crm) :
                                  crm[d].appointment_id = appointment_id}, Len(crm))
         IN  [ ids      |-> IF Len(hits) <= SearchLimit THEN hits
                            ELSE SubSeq(hits, 1, SearchLimit),
               warnings |-> 0,
               raised   |-> FALSE ]

\* get_deals_by_appointment_id: one page of the search, [] when it fails
get_deals_by_appointment_id(crm, appointment_id, fails) ==
    IF appointment_id = "" THEN [ids |-> << >>, warnings |-> 0, raised |-> FALSE]
    ELSE IF fails THEN [ids |-> << >>, warnings |-> 1, raised |-> FALSE]
    ELSE LET hits == SelectIdx({d \in 1..Len(crm) :
                                  crm[d].appointment_id = appointment_id}, Len(crm))
         IN  [ ids      |-> IF Len(hits) <= SearchLimit THEN hits
                            ELSE SubSeq(hits, 1, SearchLimit),
               warnings |-> 0,
               raised   |-> FALSE ]

\* check of one appointment id that does not skip the deals already in hand
CheckAppointment_NoSkip(crm, deal_ids, appointment_id, net) ==
    LET found      == get_deals_by_appointment_id(crm, appointment_id,
                                                  appointment_id \in net.search)
        stage_data == IF found.ids # << >>
                      THEN hs_batch_read_deals(crm, found.ids, net.stage[appointment_id])
                      ELSE [ids |-> {}, warnings |-> 0, raised |-> FALSE]
    IN  [ has_active_purchase |->
              \E k \in 1..Len(found.ids) :
                 /\ found.ids[k] \in stage_data.ids
                 /\ crm[found.ids[k]].dealstage \in ACTIVE_PURCHASE_STAGE_IDS,
          warnings |-> found.warnings + stage_data.warnings,
          raised   |-> found.raised \/ stage_data.raised ]

\* check of one appointment id that takes a sibling in any stage for a purchase
CheckAppointment_AnyStage(crm, deal_ids, appointment_id, net) ==
    LET found      == get_deals_by_appointment_id(crm, appointment_id,
                                                  appointment_id \in net.search)
        stage_data == IF found.ids # << >>
                      THEN hs_batch_read_deals(crm, found.ids, net.stage[appointment_id])
                      ELSE [ids |-> {}, warnings |-> 0, raised |-> FALSE]
    IN  [ has_active_purchase |->
              \E k \in 1..Len(found.ids) :
                 /\ found.ids[k] \notin {deal_ids[j] : j \in 1..Len(deal_ids)}
                 /\ found.ids[k] \in stage_data.ids,
          warnings |-> found.warnings + stage_data.warnings,
          raised   |-> found.raised \/ stage_data.raised ]

\* the check of one appointment id: its siblings, their stages and the verdict
CheckAppointment(crm, deal_ids, appointment_id, net) ==
    LET found      == get_deals_by_appointment_id(crm, appointment_id,
                                                  appointment_id \in net.search)
        stage_data == IF found.ids # << >>
                      THEN hs_batch_read_deals(crm, found.ids, net.stage[appointment_id])
                      ELSE [ids |-> {}, warnings |-> 0, raised |-> FALSE]
    IN  [ has_active_purchase |->
              \E k \in 1..Len(found.ids) :
                 /\ found.ids[k] \notin {deal_ids[j] : j \in 1..Len(deal_ids)}
                 /\ found.ids[k] \in stage_data.ids
                 /\ crm[found.ids[k]].dealstage \in ACTIVE_PURCHASE_STAGE_IDS,
          warnings |-> found.warnings + stage_data.warnings,
          raised   |-> found.raised \/ stage_data.raised ]

CarReason == << "Car (via appointment_id) has another deal in active purchase stage" >>

filter_deals_by_appointment_id_car_active_purchases(deals_df, crm, net) ==
    IF deals_df = << >>
    THEN [kept |-> deals_df, removed |-> << >>, warnings |-> 0, raised |-> FALSE]
    ELSE
      LET deal_ids  == [k \in 1..Len(deals_df) |-> deals_df[k].hs_object_id]
          deal_data == hs_batch_read_deals(crm, deal_ids, net.read)
          \* deal_appointment_map: the deals whose appointment id was read
          mapped    == {d \in deal_data.ids : crm[d].appointment_id # ""}
          appointment_ids == {crm[d].appointment_id : d \in mapped}
          order     == SelectIdx({d \in mapped :
                                    \A e \in mapped : e < d =>
                                       crm[e].appointment_id # crm[d].appointment_id},
                                 Len(crm))
          checks    == [a \in appointment_ids |-> CheckAppointment(crm, deal_ids, a, net)]
          deals_to_exclude ==
              {d \in mapped : checks[crm[d].appointment_id].has_active_purchase}
          keep      == {i \in 1..Len(deals_df) :
                          deals_df[i].hs_object_id \notin deals_to_exclude}
      IN  [ kept     |-> RowsAt(deals_df, keep),
            removed  |-> WithReason(RowsAt(deals_df, (1..Len(deals_df)) \ keep), CarReason),
            warnings |-> deal_data.warnings +
                         SumSeq([k \in 1..Len(order) |->
                                   checks[crm[order[k]].appointment_id].warnings]),
            raised   |-> \/ deal_data.raised
                         \/ \E a \in appointment_ids : checks[a].raised ]

\* ------------------------------------------------------------------------
\* round_robin_assign: identities to associates
\* ------------------------------------------------------------------------
\* the characters of the model in code-point order, as str comparison ranks them
CodePointOrder ==
    << " ", "+", "-", ".", "0", "1", "2", "3", "4", "5", "6", "7", "8", "9", ":", "@" >>
    \o UpperChars \o LowerChars \o << "|" >>

CodePoint == [c \in {CodePointOrder[k] : k \in 1..Len(CodePointOrder)} |->
                CHOOSE k \in 1..Len(CodePointOrder) : CodePointOrder[k] = c]

\* s < t for two str values
RECURSIVE StrLess(_, _)
StrLess(s, t) ==
    IF t = << >> THEN FALSE
    ELSE IF s = << >> THEN TRUE
    ELSE IF Head(s) = Head(t) THEN StrLess(Tail(s), Tail(t))
    ELSE CodePoint[Head(s)] < CodePoint[Head(t)]

\* by=["Phone", "CustomerName"]: row a sorts strictly before row b
SortsBefore(a, b) ==
    \/ StrLess(a.Phone, b.Phone)
    \/ a.Phone = b.Phone /\ StrLess(a.CustomerName, b.CustomerName)

\* the row put behind every row of the sorted table that does not sort after it
RECURSIVE InsertSorted(_, _)
InsertSorted(row, sorted) ==
    IF sorted = << >> THEN << row >>
    ELSE IF SortsBefore(row, Head(sorted)) THEN << row >> \o sorted
    ELSE << Head(sorted) >> \o InsertSorted(row, Tail(sorted))

RECURSIVE SortUpTo(_, _)
SortUpTo(df, n) ==
    IF n = 0 THEN << >> ELSE InsertSorted(df[n], SortUpTo(df, n - 1))

\* the table left in its input order
SortIdentities_Unsorted(df) == df

\* work.sort_values(by=["Phone", "CustomerName"], kind="stable").reset_index(drop=True)
SortIdentities(df) == SortUpTo(df, Len(df))

\* seed = d.year * 10000 + d.month * 100 + d.day; offset = seed % n
SeedOffset(d, n) == (d.year * 10000 + d.month * 100 + d.day) % n

\* rotation = associates[offset:] + associates[:offset]
Rotation(assocs, d) ==
    LET offset == SeedOffset(d, Len(assocs))
    IN  SubSeq(assocs, offset + 1, Len(assocs)) \o SubSeq(assocs, 1, offset)

\* an iterator that never leaves the first associate of the rotation
NextOfCycle_Stuck(rotation, i) == rotation[1]

\* the i-th value (from 1) that next(rr) yields for rr = cycle(rotation)
NextOfCycle(rotation, i) == rotation[((i - 1) % Len(rotation)) + 1]

\* the row with its two assignment columns
WithAssociate(row, name, email) ==
    ("SalesAssociate" :> name) @@ ("SalesEmail" :> email) @@ row

\* an empty-list path that returns an empty frame
BlankAssignment_Empty(df) == << >>

\* work["SalesAssociate"] = ""; work["SalesEmail"] = ""
BlankAssignment(df) ==
    [i \in 1..Len(df) |-> WithAssociate(df[i], << >>, << >>)]

round_robin_assign(dedup_df, assocs, d) ==
    IF dedup_df = << >> \/ assocs = << >> THEN BlankAssignment(dedup_df)
    ELSE LET work     == SortIdentities(dedup_df)
             rotation == Rotation(assocs, d)
         IN  [i \in 1..Len(work) |->
                 WithAssociate(work[i], NextOfCycle(rotation, i).name,
                                        NextOfCycle(rotation, i).email)]

\* ------------------------------------------------------------------------
\* The Fetch handlers: the stages and their order
\* ------------------------------------------------------------------------
ContactReason == << "Contact has another active purchase deal" >>

\* view_old, view_manager: the deals of contacts that have another deal in an
\* active purchase stage are removed; f says which of the three requests fail
exclude_contacts_with_active_purchases(deals_df, crm, f) ==
    LET deal_ids    == {deals_df[k].hs_object_id : k \in 1..Len(deals_df)}
        \* hs_deals_to_contacts_map
        d2c         == [d \in deal_ids |->
                          IF f.d2c \/ d \notin 1..Len(crm) THEN {}
                          ELSE {crm[d].contact} \ {""}]
        contact_ids == UNION {d2c[d] : d \in deal_ids}
        \* hs_contacts_to_deals_map
        c2d         == [c \in contact_ids |->
                          IF f.c2d THEN {}
                          ELSE {e \in 1..Len(crm) : crm[e].contact = c}]
        other_deal_ids == SelectIdx(UNION {c2d[c] : c \in contact_ids} \ deal_ids, Len(crm))
        stage_map   == hs_batch_read_deals(crm, other_deal_ids, f.read)
        exclude_contacts ==
            {c \in contact_ids :
               \E did \in c2d[c] : /\ did \notin deal_ids
                                   /\ did \in stage_map.ids
                                   /\ crm[did].dealstage \in ACTIVE_PURCHASE_STAGE_IDS}
        keep        == {i \in 1..Len(deals_df) :
                          d2c[deals_df[i].hs_object_id] \cap exclude_contacts = {}}
    IN  [ kept     |-> RowsAt(deals_df, keep),
          removed  |-> WithReason(RowsAt(deals_df, (1..Len(deals_df)) \ keep), ContactReason),
          warnings |-> (IF f.d2c /\ deal_ids # {} THEN 1 ELSE 0)
                       + (IF f.c2d /\ contact_ids # {} THEN 1 ELSE 0)
                       + stage_map.warnings ]

\* the three filters every order of which is tried, CRM requests succeeding
ApplyFilter(name, df, crm) ==
    CASE name = "filter_internal_test_emails" -> filter_internal_test_emails(df).kept
      [] name = "filter_sms_already_sent"     -> filter_sms_already_sent(df).kept
      [] name = "filter_active_purchases"     ->
            filter_deals_by_appointment_id_car_active_purchases(
                df, crm, [read |-> {}, search |-> {}, stage |-> [a \in {"A1", "A2"} |-> {}]]).kept

TableIds(df) == {df[k].hs_object_id : k \in 1..Len(df)}

\* who a row of the deduped table, or of the assigned table, is
IdentityOf(row) ==
    [CustomerName |-> row.CustomerName, Phone |-> row.Phone, Email |-> row.Email]

Identities(tbl) == {IdentityOf(tbl[k]) : k \in 1..Len(tbl)}

\* what a stage was handed and what it handed on
StageRun(name, input, output) == [stage |-> name, input |-> input, output |-> output]

\* the filters applied one after the other: the last kept table and the trace
RECURSIVE RunStages(_, _, _)
RunStages(order, df, crm) ==
    IF order = << >> THEN [table |-> df, trace |-> << >>]
    ELSE LET out  == ApplyFilter(Head(order), df, crm)
             rest == RunStages(Tail(order), out, crm)
         IN  [ table |-> rest.table,
               trace |-> << StageRun(Head(order), TableIds(df), TableIds(out)) >>
                           \o rest.trace ]

\* a reminders handler that filters the domains first
StageOrder_DomainFirst(w) ==
    CASE w = "reminders" -> << "filter_internal_test_emails", "filter_sms_already_sent",
                               "filter_active_purchases", "dedupe_users_with_audit",
                               "assign_associates" >>
      [] w = "old_leads" -> << "exclude_active_contacts", "filter_future_booking",
                               "filter_internal_test_emails", "dedupe_users_with_audit" >>
      [] w = "manager"   -> << "exclude_active_contacts", "filter_internal_test_emails",
                               "dedupe_users_with_audit" >>

\* the calls of each Fetch handler between prepare_deals and the messages
StageOrder(w) ==
    CASE w = "reminders" -> << "filter_sms_already_sent", "filter_active_purchases",
                               "filter_internal_test_emails", "dedupe_users_with_audit",
                               "assign_associates" >>
      [] w = "old_leads" -> << "exclude_active_contacts", "filter_future_booking",
                               "filter_internal_test_emails", "dedupe_users_with_audit" >>
      [] w = "manager"   -> << "exclude_active_contacts", "filter_internal_test_emails",
                               "dedupe_users_with_audit" >>

\* ------------------------------------------------------------------------
\* Drafting: what the drafter returns for the reply of the language model
\* ------------------------------------------------------------------------
\* the default limit of _clip_sms
SmsLimit == 400

\* s.endswith(p)
EndsWith(s, p) == Len(s) >= Len(p) /\ SubSeq(s, Len(s) - Len(p) + 1, Len(s)) = p

\* text[:limit]
Take(s, n) == IF Len(s) <= n THEN s ELSE SubSeq(s, 1, n)

\* _clip_sms: defined next to the drafter and called nowhere
clip_sms(text, limit) ==
    LET t == StripStr(text)
    IN  IF Len(t) <= limit THEN t ELSE RStripStr(Take(t, limit))

\* _call_openai: the stripped content of the first model that answers with
\* text; reply is that content, "" when no model answers or the call fails
call_openai(reply) == StripStr(reply)

TeamAtCars24 ==
    << "T", "e", "a", "m", " ", "a", "t", " ", "C", "a", "r", "s", "2", "4" >>

OpenAiFailedText ==
    << "D", "O", " ", "N", "O", "T", " ", "S", "E", "N", "D", " ", "M", "E", "S", "S",
       "A", "G", "E", ".", " ", "O", "p", "e", "n", "A", "I", " ", "f", "a", "i", "l",
       "e", "d" >>

\* who = (associate_name or "").strip() or "Team at Cars24"
SignerOf(associate_name) ==
    IF StripStr(associate_name) = << >> THEN TeamAtCars24 ELSE StripStr(associate_name)

\* draft_sms_reminder_associate: name, pairs_text, associate_name and
\* video_urls go into the prompt only; the reply is returned as it came, the
\* fixed text when it is blank
draft_sms_reminder_associate(name, pairs_text, associate_name, video_urls, reply) ==
    LET text == call_openai(reply)
    IN  IF StripStr(text) = << >> THEN OpenAiFailedText ELSE text

\* the en dash is the one element "ndash"
LavertonSignature ==
    << "ndash", "C", "a", "r", "s", "2", "4", " ", "L", "a", "v", "e", "r", "t", "o", "n" >>

\* draft_sms_reminder
draft_sms_reminder(name, pairs_text, video_urls, reply) ==
    LET text == call_openai(reply)
    IN  IF EndsWith(text, LavertonSignature) THEN text
        ELSE StripStr(text \o << " " >> \o LavertonSignature)

RECURSIVE UntilBlank(_)
UntilBlank(s) ==
    IF s = << >> \/ Head(s) = " " THEN << >> ELSE << Head(s) >> \o UntilBlank(Tail(s))

\* first = (name or "").split()[0] if (name or "").strip() else "there"
FirstName(name) ==
    IF StripStr(name) = << >> THEN << "t", "h", "e", "r", "e" >>
    ELSE UntilBlank(LStripStr(name))

PawanIntro ==
    << ",", " ", "t", "h", "i", "s", " ", "i", "s", " ", "p", "a", "w", "a", "n", ",",
       " ", "s", "a", "l", "e", "s", " ", "m", "a", "n", "a", "g", "e", "r", " ", "a",
       "t", " ", "c", "a", "r", "s", "2", "4", " ", "l", "a", "v", "e", "r", "t", "o",
       "n" >>

PawanSignature ==
    << " ", "ndash", "P", "a", "w", "a", "n", ",", " ", "S", "a", "l", "e", "s", " ", "M",
       "a", "n", "a", "g", "e", "r" >>

\* the closing lines of the manager and old-lead drafters: the text as it is
\* when it opens with the introduction, signed otherwise
SignedByPawan(text, first) ==
    LET intro == << "h", "i", " " >> \o LowerStr(first) \o PawanIntro
    IN  IF StartsWith(LowerStr(StripStr(text)), intro) THEN StripStr(text)
        ELSE StripStr(text) \o PawanSignature

\* draft_sms_manager
draft_sms_manager(name, pairs_text, reply) ==
    SignedByPawan(call_openai(reply), FirstName(name))

\* draft_sms_oldlead_by_stage_improved: the branch of the stage-specific
\* context, from the stage id of the primary vehicle or the stage hint
OldLeadStage(stage_id, stage_hint) ==
    IF stage_id = "1119198251" \/ stage_hint = "enquiry" THEN "enquiry"
    ELSE IF stage_id = "1119198252" \/ stage_hint = "booked" THEN "booked"
    ELSE IF stage_id = "1119198253" \/ stage_hint = "conducted" THEN "conducted"
    ELSE "unknown"

\* the context, ask and stage_specific_action of a branch
OldLeadContext(branch) ==
    CASE branch = "enquiry"   -> << "They enquired but have not booked a test drive yet." >>
      [] branch = "booked"    -> << "They booked a test drive but did not show up." >>
      [] branch = "conducted" ->
            << "They completed a test drive but did not proceed with purchase." >>
      [] OTHER                -> << "It has been a while since they reached out." >>

OldLeadAsk(branch) ==
    CASE branch = "enquiry"   ->
            << "Ask if they are still looking for a car and encourage booking a test drive to meet in person when they are on site." >>
      [] branch = "booked"    ->
            << "Encourage them to drive down to Laverton, mention the drive would be worth it, ask about change of plans." >>
      [] branch = "conducted" ->
            << "Check what could be done differently to make this work for you." >>
      [] OTHER                -> << "Re-engage and check current interest." >>

OldLeadAction(branch) ==
    CASE branch = "enquiry"   ->
            << "Are you still looking for a car? I would love to meet you in person when you are on site for a test drive." >>
      [] branch = "booked"    ->
            << "I encourage you to drive down to Laverton - the drive would definitely be worth it! Has there been any change of plans?" >>
      [] branch = "conducted" ->
            << "Is there anything I could do differently to make this work for you?" >>
      [] OTHER                ->
            << "Are you still in the market for a vehicle? I am here to help find the perfect deal." >>

\* primary_vehicle = vehicle_details[0] if vehicle_details else {}
PrimaryVehicle(vehicle_details) ==
    IF vehicle_details = << >> THEN [make |-> << >>, model |-> << >>, stage_id |-> ""]
    ELSE vehicle_details[1]

\* " ".join(vehicle_parts) if vehicle_parts else "the vehicle"; the tables
\* carry no year and no colour
VehicleText(v) ==
    IF v.make = << >> /\ v.model = << >> THEN << "the vehicle" >>
    ELSE IF v.make = << >> THEN v.model
    ELSE IF v.model = << >> THEN v.make
    ELSE v.make \o << " " >> \o v.model

\* the stage-specific part of the user prompt sent to the language model
oldlead_prompt(name, vehicle_details, stage_hint) ==
    LET branch == OldLeadStage(PrimaryVehicle(vehicle_details).stage_id, stage_hint)
    IN  [ context               |-> OldLeadContext(branch),
          ask                   |-> OldLeadAsk(branch),
          stage_specific_action |-> OldLeadAction(branch) ]

HiText ==
    << "H", "i", " " >>

PawanIntroText ==
    << ",", " ", "t", "h", "i", "s", " ", "i", "s", " ", "P", "a", "w", "a", "n", ",",
       " ", "S", "a", "l", "e", "s", " ", "M", "a", "n", "a", "g", "e", "r", " ", "a",
       "t", " ", "C", "a", "r", "s", "2", "4", " ", "L", "a", "v", "e", "r", "t", "o",
       "n" >>

draft_sms_oldlead_by_stage_improved(name, vehicle_details, stage_hint, reply) ==
    LET first  == FirstName(name)
        prompt == oldlead_prompt(name, vehicle_details, stage_hint)
        answer == call_openai(reply)
        text   == IF StripStr(answer) # << >> THEN answer
                  ELSE HiText \o first \o PawanIntroText
                       \o << ". Hope you are well! Regarding the " >>
                       \o VehicleText(PrimaryVehicle(vehicle_details)) \o << " - " >>
                       \o prompt.stage_specific_action
                       \o << " Please let me know. Thanks!" >>
    IN  SignedByPawan(text, first)

\* draft_sms_oldlead_by_stage: the branch is the stage hint
draft_sms_oldlead_by_stage(name, car_text, stage_hint, reply) ==
    SignedByPawan(call_openai(reply), FirstName(name))

\* ------------------------------------------------------------------------
\* Message tables
\* ------------------------------------------------------------------------
MissingPhoneReason == << "Missing/invalid phone" >>
NoMessageReason    == << "No message generated" >>

\* str(row.get("StageHint") or "unknown")
StageHintText(row) == IF row.StageHint = "" THEN "unknown" ELSE row.StageHint

\* the draft of one identity row in a mode of build_messages_from_dedup
DraftFor(mode, row, reply) ==
    CASE mode = "reminder" ->
            draft_sms_reminder(StripStr(row.CustomerName), row.WhenRel, << >>, reply)
      [] mode = "manager"  ->
            draft_sms_manager(StripStr(row.CustomerName), row.WhenRel, reply)
      [] mode = "oldlead"  ->
            draft_sms_oldlead_by_stage_improved(StripStr(row.CustomerName),
                                                row.VehicleDetails, StageHintText(row), reply)
      [] OTHER             ->
            draft_sms_oldlead_by_stage(StripStr(row.CustomerName), row.Cars,
                                       StageHintText(row), reply)

\* the rows of the deduped table that have a phone, in table order
RowsWithPhone(dedup_df) ==
    SelectIdx({g \in 1..Len(dedup_df) : StripStr(dedup_df[g].Phone) # << >>}, Len(dedup_df))

\* build_messages_from_dedup; replies[g] is the reply for row g
build_messages_from_dedup(dedup_df, mode, replies) ==
    LET idx == RowsWithPhone(dedup_df)
    IN  [k \in 1..Len(idx) |->
            LET row == dedup_df[idx[k]]
            IN  [ CustomerName |-> StripStr(row.CustomerName),
                  Phone        |-> StripStr(row.Phone),
                  Email        |-> StripStr(row.Email),
                  Cars         |-> row.Cars,
                  WhenExact    |-> row.WhenExact,
                  WhenRel      |-> row.WhenRel,
                  Message      |-> DraftFor(mode, row, replies[idx[k]]) ]]

\* the "skipped" row of an identity
SkippedRow(row, reason) ==
    [Customer |-> row.CustomerName, Email |-> row.Email, Cars |-> row.Cars,
     Reason |-> reason]

RECURSIVE SkippedUpTo(_, _, _)
SkippedUpTo(dedup_df, msgs_df, n) ==
    IF n = 0 THEN << >>
    ELSE LET row   == dedup_df[n]
             phone == StripStr(row.Phone)
             rest  == SkippedUpTo(dedup_df, msgs_df, n - 1)
         IN  IF phone = << >> THEN Append(rest, SkippedRow(row, MissingPhoneReason))
             ELSE IF \A k \in 1..Len(msgs_df) : msgs_df[k].Phone # phone
                  THEN Append(rest, SkippedRow(row, NoMessageReason))
                  ELSE rest

\* build_messages_with_audit
build_messages_with_audit(dedup_df, mode, replies) ==
    LET msgs_df == build_messages_from_dedup(dedup_df, mode, replies)
    IN  [ msgs    |-> msgs_df,
          skipped |-> SkippedUpTo(dedup_df, msgs_df, Len(dedup_df)) ]

\* _build_messages_for_reminders_with_associates: the rows without a phone
\* are left out and no "skipped" table is built
build_messages_for_reminders_with_associates(dedup_df, replies) ==
    LET idx == RowsWithPhone(dedup_df)
    IN  [k \in 1..Len(idx) |->
            LET row == dedup_df[idx[k]]
            IN  [ CustomerName   |-> StripStr(row.CustomerName),
                  Phone          |-> StripStr(row.Phone),
                  Email          |-> StripStr(row.Email),
                  SalesAssociate |-> StripStr(row.SalesAssociate),
                  SalesEmail     |-> StripStr(row.SalesEmail),
                  Cars           |-> row.Cars,
                  WhenExact      |-> row.WhenExact,
                  WhenRel        |-> row.WhenRel,
                  Message        |-> draft_sms_reminder_associate(
                                         StripStr(row.CustomerName), row.WhenRel,
                                         StripStr(row.SalesAssociate), << >>,
                                         replies[idx[k]]) ]]

\* ------------------------------------------------------------------------
\* Sending and the write-back of the "SMS sent" flag
\* ------------------------------------------------------------------------
\* the phones of a table column, without repetition
PhonesOf(tbl) == {tbl[k].Phone : k \in 1..Len(tbl)}

\* get_all_deal_ids_for_contacts: phone -> the ids of the deals of that phone
get_all_deal_ids_for_contacts(messages_df, deals_df) ==
    IF messages_df = << >> \/ deals_df = << >> THEN << >>
    ELSE [phone \in {p \in PhonesOf(messages_df) : StripStr(p) # << >>} |->
            LET matching == SelectIdx({i \in 1..Len(deals_df) :
                                         deals_df[i].phone_norm = phone}, Len(deals_df))
            IN  [k \in 1..Len(matching) |-> deals_df[matching[k]].hs_object_id]]

\* what the HTTP request of a send can come to
HttpOutcomes == {"2xx", "non-2xx", "timeout", "connection error"}

\* a dispatcher without its try/except
send_sms_via_aircall_Raising(phone, message, outcome) ==
    [ ok |-> outcome = "2xx", detail |-> "sent", raised |-> outcome # "2xx" ]

\* send_sms_via_aircall: (True, "sent") or (False, str(e))
send_sms_via_aircall(phone, message, outcome) ==
    [ ok     |-> outcome = "2xx",
      detail |-> IF outcome = "2xx" THEN "sent" ELSE outcome,
      raised |-> FALSE ]

\* Python values handed to update_deals_sms_sent: a list, or a dict with
\* its keys in insertion order
PyList(items) == [type |-> "list", items |-> items]
PyDict(keys)  == [type |-> "dict", items |-> keys]

\* the value written to td_reminder_sms_sent
SmsSentValue == << "t", "r", "u", "e" >>

RECURSIVE MarkSent(_, _)
\* the CRM after the flag of every deal of ids was set
MarkSent(crm, ids) ==
    IF ids = << >> THEN crm
    ELSE MarkSent(IF Head(ids) \in 1..Len(crm)
                  THEN [crm EXCEPT ![Head(ids)].td_reminder_sms_sent = SmsSentValue]
                  ELSE crm,
                  Tail(ids))

\* a write-back that writes '1'
update_deals_sms_sent_WritesOne(deal_ids, crm, failed) ==
    IF deal_ids.items = << >>
    THEN [crm |-> crm, success |-> 0, failure |-> 0, raised |-> FALSE, written |-> {}]
    ELSE LET ok == SelectIdx({k \in 1..Len(deal_ids.items) : ChunkOf(k) \notin failed},
                             Len(deal_ids.items))
             ids == [k \in 1..Len(ok) |-> deal_ids.items[ok[k]]]
         IN  [ crm     |-> [d \in 1..Len(crm) |->
                              IF \E k \in 1..Len(ids) : ids[k] = d
                              THEN [crm[d] EXCEPT !.td_reminder_sms_sent = << "1" >>]
                              ELSE crm[d]],
               success |-> Len(ids),
               failure |-> Len(deal_ids.items) - Len(ids),
               raised  |-> FALSE,
               written |-> {ids[k] : k \in 1..Len(ids)} ]

\* update_deals_sms_sent: batches of 100 ids, failed is the set of batches
\* whose request fails or is not answered with 200; deal_ids[i:i+100] raises
\* for a dict before the first request
update_deals_sms_sent(deal_ids, crm, failed) ==
    IF deal_ids.items = << >>
    THEN [crm |-> crm, success |-> 0, failure |-> 0, raised |-> FALSE, written |-> {}]
    ELSE IF deal_ids.type # "list"
    THEN [crm |-> crm, success |-> 0, failure |-> 0, raised |-> TRUE, written |-> {}]
    ELSE LET ok == SelectIdx({k \in 1..Len(deal_ids.items) : ChunkOf(k) \notin failed},
                             Len(deal_ids.items))
             ids == [k \in 1..Len(ok) |-> deal_ids.items[ok[k]]]
         IN  [ crm     |-> MarkSent(crm, ids),
               success |-> Len(ids),
               failure |-> Len(deal_ids.items) - Len(ids),
               raised  |-> FALSE,
               written |-> {ids[k] : k \in 1..Len(ids)} ]

RECURSIVE AllDealIds(_, _)
\* all_deal_ids: the deals of the phones that were sent to, phone by phone
AllDealIds(sent_phones, phone_to_deals) ==
    IF sent_phones = << >> THEN << >>
    ELSE (IF Head(sent_phones) \in DOMAIN phone_to_deals
          THEN phone_to_deals[Head(sent_phones)] ELSE << >>)
         \o AllDealIds(Tail(sent_phones), phone_to_deals)

RECURSIVE DictKeys(_)
\* the keys of a dict filled in this order, each once, in insertion order
DictKeys(ids) ==
    IF ids = << >> THEN << >>
    ELSE LET rest == DictKeys(SubSeq(ids, 1, Len(ids) - 1))
             last == ids[Len(ids)]
         IN  IF \E k \in 1..Len(rest) : rest[k] = last THEN rest ELSE Append(rest, last)

\* deal_to_email: a key for every deal of every selected row, sent or not
DealToEmail(to_send_phones, phone_to_deals) ==
    PyDict(DictKeys(AllDealIds(to_send_phones, phone_to_deals)))

\* ------------------------------------------------------------------------
\* State
\* ------------------------------------------------------------------------
VARIABLES
    deals,           \* the prepared table handed to the stage (a sequence of rows)
    today,           \* datetime.now(MEL_TZ).date() as a day number
    pc,              \* "fetched", then the name of the function that has run
    dedup,           \* the Identity Summary table returned by dedupe_users
    dedupe_dropped,  \* the "collapsed during dedupe" audit table
    crm,             \* the deals of the CRM, indexed by hs_object_id
    net,             \* which CRM requests of the running filter fail
    kept,            \* the kept table returned by a filter
    removed,         \* the removed table (rows with Reason) returned by a filter
    warnings,        \* the number of st.warning messages shown by the filter
    phone_raw,       \* the raw value handed to normalize_phone
    phone_out,       \* what normalize_phone returned for phone_raw
    phone_again,     \* what normalize_phone returned for phone_out
    associates,      \* the list of selected associates (name, email)
    seed_date,       \* the reference date of the assignment (year, month, day)
    assigned,        \* the table returned by the assignment, with its two new columns
    wf,              \* the workflow whose Fetch handler runs
    stages_run,      \* the stages the handler has run so far, in order
    msgs,            \* the message table of the last Fetch
    skipped,         \* the "skipped" audit table of the last Fetch
    phone_to_deals,  \* st.session_state["reminders_phone_to_deals"]
    to_send,         \* the rows of the preview ticked for sending, in table order
    attempts,        \* the calls of the dispatcher made by the Send handler, in order
    sent,            \* the counter of accepted messages of the Send handler
    failed,          \* the counter of refused messages of the Send handler
    sent_phones,     \* the phones the Send handler sent to, in order
    flag_written,    \* the deals whose flag the last write-back set in the CRM
    updated_deals,   \* the deals for which a batch update was answered with 200
    update_success,  \* the success count the last write-back returned
    update_fail,     \* the failure count the last write-back returned
    prompts,         \* the stage-specific prompts handed to the language model
    total_cap,       \* the total_cap argument of the running deal search
    date_eq_given,   \* whether the search was called with a date_eq_ms
    search_no,       \* 1 in the search as asked, 2 in the widened search
    fetched,         \* the number of records _search_once has collected
    after,           \* whether the last page carried a next-page cursor
    requests_made,   \* the number of search requests sent so far
    last_request,    \* the last search request: its limit, cursor and fetched before
    session_audit,   \* the audit tables the Fetch handler stored in the session
    shown            \* the audit tables on screen after the last run of the view

phoneVars  == << phone_raw, phone_out, phone_again >>
rosterVars == << associates, seed_date, assigned >>
flowVars   == << wf, stages_run >>
sendVars   == << msgs, skipped, phone_to_deals, to_send, attempts, sent, failed,
                 sent_phones, flag_written, updated_deals, update_success,
                 update_fail >>
draftVars  == << prompts >>
searchVars == << total_cap, date_eq_given, search_no, fetched, after, requests_made,
                 last_request >>
viewVars   == << session_audit, shown >>
pageVars   == << searchVars, viewVars >>
uiVars     == << sendVars, draftVars, pageVars >>

vars == << deals, today, pc, dedup, dedupe_dropped, crm, net, kept, removed, warnings,
           phoneVars, rosterVars, flowVars, uiVars >>

\* ------------------------------------------------------------------------
\* Input tables
\* ------------------------------------------------------------------------
PhonePlus   == << "+", "6", "1", "4", "1", "2", "3", "4", "5", "6", "7", "8" >>
PhoneNoPlus == << "6", "1", "4", "1", "2", "3", "4", "5", "6", "7", "8" >>
PhoneLocal  == << "0", "4", "1", "2", " ", "3", "4", "5", " ", "6", "7", "8" >>
PhoneShort  == << "1", "2", "3", "4", "5" >>

EmailUpper  == << "X", "@", "Y", ".", "c", "o", "m" >>
EmailLower  == << " ", "x", "@", "y", ".", "c", "o", "m" >>
EmailOther  == << "b", "@", "z", ".", "a", "u" >>

NameAnn     == << "A", "n", "n" >>
NameBob     == << "B", "o", "b" >>
MakeKia     == << "K", "i", "a" >>
ModelRio    == << "R", "i", "o" >>
TimeTen     == << "1", "0", ":", "0", "0" >>

\* a raw deal with every field at its plainest value
BaseDeal ==
    [ hs_object_id         |-> 0,
      full_name            |-> NameAnn,
      email                |-> EmailOther,
      mobile               |-> PhonePlus,
      phone                |-> NaN,
      dealstage            |-> STAGE_BOOKED_ID,
      vehicle_make         |-> MakeKia,
      vehicle_model        |-> ModelRio,
      slot_date_prop       |-> 2,
      slot_date            |-> NoDate,
      slot_time_param      |-> TimeTen,
      slot_time            |-> << >>,
      conducted_date_local |-> 2,
      conducted_time_local |-> TimeTen,
      td_reminder_sms_sent |-> NaN ]

\* raw deals that differ in who the customer is
IdentityPool ==
    { [BaseDeal EXCEPT !.mobile = PhonePlus,   !.email = EmailUpper],
      [BaseDeal EXCEPT !.mobile = PhoneNoPlus, !.email = EmailLower, !.full_name = NameBob],
      [BaseDeal EXCEPT !.mobile = PhoneNoPlus, !.email = << >>],
      [BaseDeal EXCEPT !.mobile = NaN, !.phone = PhoneLocal, !.email = EmailUpper,
                       !.full_name = << >>],
      [BaseDeal EXCEPT !.mobile = NaN, !.email = EmailUpper],
      [BaseDeal EXCEPT !.mobile = NaN, !.email = EmailLower, !.full_name = << >>],
      [BaseDeal EXCEPT !.mobile = NaN, !.email = << >>],
      [BaseDeal EXCEPT !.mobile = NaN, !.phone = PhoneShort, !.email = << >>,
                       !.full_name = << >>] }

\* raw deals of one customer that differ in stage, car and scheduling
DetailPool ==
    { [BaseDeal EXCEPT !.dealstage = st,
                       !.slot_date_prop = w[1], !.slot_time_param = w[2],
                       !.conducted_date_local = w[1], !.conducted_time_local = w[2],
                       !.vehicle_make = w[3]] :
        st \in {STAGE_ENQUIRY_ID, STAGE_BOOKED_ID, STAGE_CONDUCTED_ID, "8082239"},
        w  \in { << 2, TimeTen, MakeKia >>, << NoDate, << >>, << >> >> } }
    \cup
    { [BaseDeal EXCEPT !.slot_date_prop = NoDate, !.slot_date = 3,
                       !.slot_time_param = << >>,
                       !.conducted_date_local = 3, !.conducted_time_local = << >>] }

\* the tables of at most MaxDeals prepared rows over a pool; the CRM gives
\* every deal its own hs_object_id
TablesOver(pool) ==
    UNION { { [i \in 1..n |-> prepare_deals([f[i] EXCEPT !.hs_object_id = i])] :
                f \in [1..n -> pool] } : n \in 0..MaxDeals }

EmailCars24   == << " ", "A", "@", "C", "a", "r", "s", "2", "4", ".", "C", "O", "M", " " >>
EmailYopmail  == << "b", "@", "y", "o", "p", "m", "a", "i", "l", ".", "c", "o", "m" >>
EmailNoAt     == << "c", "a", "r", "s", "2", "4", ".", "c", "o", "m" >>
EmailLocalC24 == << "c", "a", "r", "s", "2", "4", ".", "c", "o", "m", "@", "y", ".", "c", "o", "m" >>

SmsTrue == << "t", "r", "u", "e" >>
SmsYes  == << "Y", "e", "s" >>
SmsNo   == << "n", "o" >>
SmsEmpty == << >>

SmsUpper  == << "T", "R", "U", "E" >>
SmsPadded == << " ", "t", "r", "u", "e" >>

\* raw deals that differ in the column one of the filters reads
EmailRows ==
    { BaseDeal }
    \cup { [BaseDeal EXCEPT !.email = e] :
             e \in {EmailCars24, EmailYopmail, EmailNoAt, EmailLocalC24} }

SmsRows ==
    { BaseDeal }
    \cup { [BaseDeal EXCEPT !.td_reminder_sms_sent = f] :
             f \in {SmsTrue, SmsYes, SmsNo, SmsEmpty, SmsUpper, SmsPadded} }

DateRows ==
    { BaseDeal } \cup { [BaseDeal EXCEPT !.slot_date_prop = d] : d \in {NoDate, 3} }

ColumnPool == { EmailRows, SmsRows, DateRows }

Appointments == {"A1", "A2"}

\* what the CRM holds for a deal of the table
CrmDeals ==
    [ appointment_id : {""} \cup Appointments,
      dealstage      : {STAGE_BOOKED_ID, "8082239"} ]

\* what the CRM holds for another deal of one of the appointments
CrmSiblings ==
    [ appointment_id : Appointments,
      dealstage      : {STAGE_BOOKED_ID, "8082239"} ]

\* no CRM request fails
NoFailure == [read |-> {}, search |-> {}, stage |-> [a \in Appointments |-> {}]]

\* the ways the CRM requests of one run of the active-purchase filter over
\* the deals 1..n can fail: the chunks of the appointment-id read, then the
\* sibling search of an appointment id of the table, then the chunks of its
\* stage lookup; a request that is not made does not fail
Failures(c, n) ==
    LET present == {c[d].appointment_id : d \in 1..n} \cap Appointments
    IN  { f \in [ read   : SUBSET {1},
                  search : SUBSET present,
                  stage  : [Appointments -> SUBSET {1}] ] :
            /\ f.read # {} => f.search = {}
            /\ \A a \in Appointments :
                  (f.read # {} \/ a \notin present \/ a \in f.search) => f.stage[a] = {} }

\* ------------------------------------------------------------------------
\* The deduplicator as a state machine
\* ------------------------------------------------------------------------
NoFilterRun ==
    /\ net = NoFailure
    /\ kept = << >>
    /\ removed = << >>
    /\ warnings = 0

NoPhoneRun ==
    /\ phone_raw = NaN
    /\ phone_out = << >>
    /\ phone_again = << >>

NoDateChosen == [year |-> 0, month |-> 0, day |-> 0]

NoRosterRun ==
    /\ associates = << >>
    /\ seed_date = NoDateChosen
    /\ assigned = << >>

NoFlowRun ==
    /\ wf = ""
    /\ stages_run = << >>

NoSendRun ==
    /\ msgs = << >>
    /\ skipped = << >>
    /\ phone_to_deals = << >>
    /\ to_send = << >>
    /\ attempts = << >>
    /\ sent = 0
    /\ failed = 0
    /\ sent_phones = << >>
    /\ flag_written = {}
    /\ updated_deals = {}
    /\ update_success = 0
    /\ update_fail = 0

NoDraftRun == prompts = << >>

\* no request was sent
NoRequest == [limit |-> 0, after |-> FALSE, fetched |-> 0, page |-> 0]

NoSearchRun ==
    /\ total_cap = 0
    /\ date_eq_given = FALSE
    /\ search_no = 0
    /\ fetched = 0
    /\ after = FALSE
    /\ requests_made = 0
    /\ last_request = NoRequest

NoViewRun ==
    /\ session_audit = [removed_internal |-> << >>]
    /\ shown = << >>

NoUiRun == NoSendRun /\ NoDraftRun /\ NoSearchRun /\ NoViewRun

Init ==
    /\ deals \in TablesOver(IdentityPool) \cup TablesOver(DetailPool)
    /\ crm = [i \in 1..Len(deals) |->
                [appointment_id |-> "", dealstage |-> deals[i].dealstage]]
    /\ today = 2
    /\ pc = "fetched"
    /\ dedup = << >>
    /\ dedupe_dropped = << >>
    /\ NoFilterRun
    /\ NoPhoneRun
    /\ NoRosterRun
    /\ NoFlowRun
    /\ NoUiRun

\* dedup = dedupe_users(deals, use_conducted=...)
DedupeUsers ==
    /\ pc = "fetched"
    /\ \E use_conducted \in BOOLEAN :
         dedup' = dedupe_users(deals, use_conducted, today)
    /\ pc' = "dedupe_users"
    /\ UNCHANGED << deals, today, uiVars, dedupe_dropped, crm, net, kept, removed, warnings,
                   phoneVars, rosterVars, flowVars >>

\* dedup, dedupe_dropped = dedupe_users_with_audit(deals, use_conducted=...)
DedupeUsersWithAudit ==
    /\ pc = "fetched"
    /\ \E use_conducted \in BOOLEAN :
         dedup' = dedupe_users(deals, use_conducted, today)
    /\ dedupe_dropped' = dedupe_dropped_rows(deals)
    /\ pc' = "dedupe_users_with_audit"
    /\ UNCHANGED << deals, today, uiVars, crm, net, kept, removed, warnings,
                   phoneVars, rosterVars, flowVars >>

Next == DedupeUsers \/ DedupeUsersWithAudit

Spec == Init /\ [][Next]_vars

\* ------------------------------------------------------------------------
\* The filter chain as a state machine
\* ------------------------------------------------------------------------
\* tables whose rows differ in a filtered column, none with an appointment
ColumnInit ==
    /\ \E pool \in ColumnPool : deals \in TablesOver(pool)
    /\ crm = [i \in 1..Len(deals) |->
                [appointment_id |-> "", dealstage |-> deals[i].dealstage]]

\* plain rows whose CRM deals, and their siblings, differ in appointment and stage
CrmInit ==
    \E n \in 1..MaxCrmDeals, k \in 0..MaxSiblings :
        /\ crm \in { mine \o others : mine \in [1..n -> CrmDeals],
                                      others \in [1..k -> CrmSiblings] }
        /\ deals = [i \in 1..n |->
                      prepare_deals([BaseDeal EXCEPT !.hs_object_id = i,
                                                     !.dealstage = crm[i].dealstage])]

FilterInit ==
    /\ ColumnInit \/ CrmInit
    /\ today = 2
    /\ pc = "fetched"
    /\ dedup = << >>
    /\ dedupe_dropped = << >>
    /\ NoFilterRun
    /\ NoPhoneRun
    /\ NoRosterRun
    /\ NoFlowRun
    /\ NoUiRun

\* deals_f, removed_internal = filter_internal_test_emails(deals)
FilterInternalTestEmails ==
    /\ pc = "fetched"
    /\ LET res == filter_internal_test_emails(deals)
       IN  kept' = res.kept /\ removed' = res.removed
    /\ pc' = "filter_internal_test_emails"
    /\ UNCHANGED << deals, today, uiVars, dedup, dedupe_dropped, crm, net, warnings,
                   phoneVars, rosterVars, flowVars >>

\* deals_not_sent, removed_sms_sent = filter_sms_already_sent(deals)
FilterSmsAlreadySent ==
    /\ pc = "fetched"
    /\ LET res == filter_sms_already_sent(deals)
       IN  kept' = res.kept /\ removed' = res.removed
    /\ pc' = "filter_sms_already_sent"
    /\ UNCHANGED << deals, today, uiVars, dedup, dedupe_dropped, crm, net, warnings,
                   phoneVars, rosterVars, flowVars >>

\* kept, dropped = filter_deals_by_appointment_id_car_active_purchases(deals)
FilterActivePurchases ==
    /\ pc = "fetched"
    /\ \E f \in Failures(crm, Len(deals)) :
         LET res == filter_deals_by_appointment_id_car_active_purchases(deals, crm, f)
         IN  /\ net' = f
             /\ warnings' = res.warnings
             /\ IF res.raised
                THEN pc' = "raised" /\ UNCHANGED << kept, removed >>
                ELSE /\ pc' = "filter_active_purchases"
                     /\ kept' = res.kept
                     /\ removed' = res.removed
    /\ UNCHANGED << deals, today, uiVars, dedup, dedupe_dropped, crm,
                   phoneVars, rosterVars, flowVars >>

\* view_old: the future-booking exclusion
FilterFutureBooking ==
    /\ pc = "fetched"
    /\ LET res == filter_future_booking(deals, today)
       IN  kept' = res.kept /\ removed' = res.removed
    /\ pc' = "filter_future_booking"
    /\ UNCHANGED << deals, today, uiVars, dedup, dedupe_dropped, crm, net, warnings,
                   phoneVars, rosterVars, flowVars >>

FilterNext ==
    \/ FilterInternalTestEmails
    \/ FilterSmsAlreadySent
    \/ FilterActivePurchases
    \/ FilterFutureBooking

FilterSpec == FilterInit /\ [][FilterNext]_vars

\* ------------------------------------------------------------------------
\* The assignment step as a state machine
\* ------------------------------------------------------------------------
MaxAssociates == 3

PhoneOther == << "0", "4", "0", "0", "0", "0", "0", "0", "0", "0" >>
EmailThird == << "c", "@", "z", ".", "a", "u" >>

\* raw deals of identities that tie on Phone, on Phone and CustomerName, or on
\* neither, and one without a phone
RosterPool ==
    { [BaseDeal EXCEPT !.mobile = PhonePlus,   !.email = EmailUpper],
      [BaseDeal EXCEPT !.mobile = PhoneNoPlus, !.email = EmailOther, !.full_name = NameBob],
      [BaseDeal EXCEPT !.mobile = PhonePlus,   !.email = EmailThird],
      [BaseDeal EXCEPT !.mobile = PhoneOther,  !.email = EmailOther, !.full_name = NameBob],
      [BaseDeal EXCEPT !.mobile = NaN,         !.email = EmailLower] }

Associate(name, email) == [name |-> name, email |-> email]

\* the roster the lists of associates are taken from
RosterEntries ==
    << Associate(<< "Nick" >>, << "nick@" >>), Associate(<< "Mia" >>, << "mia@" >>),
       Associate(<< "Raj" >>, << "raj@" >>),   Associate(<< "Lee" >>, << "lee@" >>),
       Associate(<< "Zoe" >>, << "zoe@" >>) >>

AssociateLists == { SubSeq(RosterEntries, 1, m) : m \in 0..MaxAssociates }

DateOf(y, m, d) == [year |-> y, month |-> m, day |-> d]

SeedDates == { DateOf(2025, 1, 1), DateOf(2025, 1, 2), DateOf(2024, 12, 31),
               DateOf(2025, 11, 6) }

\* the state after step D of the Fetch handler: a deduped table in hand
RosterInit ==
    /\ deals \in TablesOver(RosterPool)
    /\ crm = [i \in 1..Len(deals) |->
                [appointment_id |-> "", dealstage |-> deals[i].dealstage]]
    /\ today = 2
    /\ dedup = dedupe_users(deals, FALSE, today)
    /\ dedupe_dropped = dedupe_dropped_rows(deals)
    /\ pc = "dedupe_users_with_audit"
    /\ associates \in AssociateLists
    /\ seed_date \in SeedDates
    /\ assigned = << >>
    /\ NoFilterRun
    /\ NoPhoneRun
    /\ NoFlowRun
    /\ NoUiRun

\* round_robin_assign(dedup, associates, d)
RoundRobinAssign ==
    /\ pc = "dedupe_users_with_audit"
    /\ assigned' = round_robin_assign(dedup, associates, seed_date)
    /\ pc' = "round_robin_assign"
    /\ UNCHANGED << deals, today, uiVars, dedup, dedupe_dropped, crm, net, kept, removed, warnings,
                    phoneVars, associates, seed_date, flowVars >>

\* view_reminders, no associate selected: the two columns are set to ""
AssignBlankColumns ==
    /\ pc = "dedupe_users_with_audit"
    /\ associates = << >>
    /\ assigned' = BlankAssignment(dedup)
    /\ pc' = "blank_columns"
    /\ UNCHANGED << deals, today, uiVars, dedup, dedupe_dropped, crm, net, kept, removed, warnings,
                    phoneVars, associates, seed_date, flowVars >>

RosterNext == RoundRobinAssign \/ AssignBlankColumns

RosterSpec == RosterInit /\ [][RosterNext]_vars

\* ------------------------------------------------------------------------
\* The normaliser as a state machine
\* ------------------------------------------------------------------------
MaxShortLen == 3
MaxBodyLen  == 10

PhoneAlphabet == { "+", "0", "4", "6", "1", " ", "a" }

\* every string of at most MaxShortLen characters of the alphabet
ShortPhones == UNION { [1..n -> PhoneAlphabet] : n \in 0..MaxShortLen }

PhoneFiller == << "1", "2", "3", "4", "5", "6", "7", "8", "9", "0", "1", "2" >>

\* a subscriber number of n digits
PhoneBody(first, n) == << first >> \o SubSeq(PhoneFiller, 1, n - 1)

\* the number as people write it, in groups
Grouped(b) == SubSeq(b, 1, 3) \o << " " >> \o SubSeq(b, 4, Len(b))

\* numbers with and without a '+', a country code or a trunk '0', of nine
\* digits or one more or less, plain or grouped, with text around them
LongPhones ==
    { lead \o head \o body \o trail :
        lead  \in { << >>, << " " >>, << "+" >>, << " ", "+" >>, << "(", "+" >> },
        head  \in { << >>, << "6", "1" >>, << "0" >>, << "6", "1", "0" >>, << "6", "4" >> },
        body  \in UNION { { PhoneBody(first, n), Grouped(PhoneBody(first, n)) } :
                            first \in {"4", "3"}, n \in 8..MaxBodyLen },
        trail \in { << >>, << " ", "a" >> } }

PhoneInit ==
    /\ phone_raw \in {NaN} \cup ShortPhones \cup LongPhones
    /\ phone_out = << >>
    /\ phone_again = << >>
    /\ pc = "raw_phone"
    /\ deals = << >>
    /\ crm = << >>
    /\ today = 2
    /\ dedup = << >>
    /\ dedupe_dropped = << >>
    /\ NoFilterRun
    /\ NoRosterRun
    /\ NoFlowRun
    /\ NoUiRun

\* out["phone_norm"] = out["phone_raw"].apply(normalize_phone)
NormalizePhone ==
    /\ pc = "raw_phone"
    /\ phone_out' = normalize_phone(phone_raw)
    /\ pc' = "normalize_phone"
    /\ UNCHANGED << deals, today, uiVars, dedup, dedupe_dropped, crm, net, kept, removed, warnings,
                    phone_raw, phone_again, rosterVars, flowVars >>

\* normalize_phone applied to a number it returned
NormalizePhoneAgain ==
    /\ pc = "normalize_phone"
    /\ phone_again' = normalize_phone(phone_out)
    /\ pc' = "normalize_phone_again"
    /\ UNCHANGED << deals, today, uiVars, dedup, dedupe_dropped, crm, net, kept, removed, warnings,
                    phone_raw, phone_out, rosterVars, flowVars >>

PhoneNext == NormalizePhone \/ NormalizePhoneAgain

PhoneSpec == PhoneInit /\ [][PhoneNext]_vars

\* ------------------------------------------------------------------------
\* The Fetch handlers as a state machine
\* ------------------------------------------------------------------------
MaxFlowDeals == 2

Workflows == { "reminders", "old_leads", "manager" }

\* raw deals one of which each column filter removes
FlowRows ==
    { BaseDeal,
      [BaseDeal EXCEPT !.email = EmailCars24],
      [BaseDeal EXCEPT !.td_reminder_sms_sent = SmsTrue],
      [BaseDeal EXCEPT !.slot_date_prop = 3] }

\* what the CRM holds for a deal: its appointment, its contact and its stage
FlowCrmDeals ==
    { [appointment_id |-> "",   contact |-> "",   dealstage |-> STAGE_BOOKED_ID],
      [appointment_id |-> "A1", contact |-> "K1", dealstage |-> STAGE_BOOKED_ID],
      [appointment_id |-> "A1", contact |-> "K1", dealstage |-> "8082239"] }

FlowCrmSiblings ==
    { [appointment_id |-> "A1", contact |-> "K1", dealstage |-> STAGE_BOOKED_ID],
      [appointment_id |-> "A1", contact |-> "K1", dealstage |-> "8082239"] }

\* tables that differ in a filtered column, the CRM knowing nothing more
FlowColumnInit ==
    \E n \in 0..MaxFlowDeals :
        /\ deals \in { [i \in 1..n |-> prepare_deals([f[i] EXCEPT !.hs_object_id = i])] :
                         f \in [1..n -> FlowRows] }
        /\ crm = [i \in 1..n |-> [appointment_id |-> "", contact |-> "",
                                  dealstage |-> deals[i].dealstage]]

\* plain rows whose CRM deals, and their siblings, differ
FlowCrmInit ==
    \E n \in 1..MaxFlowDeals, k \in 0..MaxSiblings :
        /\ crm \in { mine \o others : mine \in [1..n -> FlowCrmDeals],
                                      others \in [1..k -> FlowCrmSiblings] }
        /\ deals = [i \in 1..n |->
                      prepare_deals([BaseDeal EXCEPT !.hs_object_id = i,
                                                     !.dealstage = crm[i].dealstage])]

\* the state after prepare_deals in one of the three Fetch handlers
FlowInit ==
    /\ FlowColumnInit \/ FlowCrmInit
    /\ wf \in Workflows
    /\ stages_run = << >>
    /\ associates \in (IF wf = "reminders" THEN {<< >>, SubSeq(RosterEntries, 1, 2)}
                       ELSE {<< >>})
    /\ seed_date = (IF wf = "reminders" THEN DateOf(2025, 1, 1) ELSE NoDateChosen)
    /\ assigned = << >>
    /\ today = 2
    /\ pc = "fetched"
    /\ dedup = << >>
    /\ dedupe_dropped = << >>
    /\ NoFilterRun
    /\ NoPhoneRun
    /\ NoUiRun

\* the stage the handler calls next
NextStage ==
    IF pc # "raised" /\ Len(stages_run) < Len(StageOrder(wf))
    THEN StageOrder(wf)[Len(stages_run) + 1]
    ELSE "none"

\* the table the next stage is handed
Table == IF stages_run = << >> THEN deals ELSE kept

Ran(name, input, output) == stages_run' = Append(stages_run, StageRun(name, input, output))

\* deals_not_sent, removed_sms_sent = filter_sms_already_sent(deals)
StageSmsAlreadySent ==
    /\ NextStage = "filter_sms_already_sent"
    /\ LET res == filter_sms_already_sent(Table)
       IN  /\ kept' = res.kept
           /\ removed' = res.removed
           /\ Ran("filter_sms_already_sent", TableIds(Table), TableIds(res.kept))
    /\ pc' = "filter_sms_already_sent"
    /\ UNCHANGED << deals, today, uiVars, dedup, dedupe_dropped, crm, net, warnings,
                    phoneVars, rosterVars, wf >>

\* deals_car_filtered, dropped = filter_deals_by_appointment_id_car_active_purchases(...)
StageActivePurchases ==
    /\ NextStage = "filter_active_purchases"
    /\ \E f \in Failures(crm, Len(deals)) :
         LET res == filter_deals_by_appointment_id_car_active_purchases(Table, crm, f)
         IN  /\ net' = f
             /\ warnings' = warnings + res.warnings
             /\ kept' = res.kept
             /\ removed' = res.removed
             /\ Ran("filter_active_purchases", TableIds(Table), TableIds(res.kept))
    /\ pc' = "filter_active_purchases"
    /\ UNCHANGED << deals, today, uiVars, dedup, dedupe_dropped, crm, phoneVars, rosterVars, wf >>

\* the ways the three requests of the contact check can fail
ContactFailures ==
    { [d2c |-> a, c2d |-> b, read |-> r] :
        a \in BOOLEAN, b \in BOOLEAN, r \in SUBSET {1} }

\* view_old, view_manager: contacts with another active purchase deal
StageActiveContacts ==
    /\ NextStage = "exclude_active_contacts"
    /\ \E f \in ContactFailures :
         LET res == exclude_contacts_with_active_purchases(Table, crm, f)
         IN  \* a request that is not made does not fail
             /\ Cardinality({x \in {"d2c", "c2d"} : f[x]}) + Cardinality(f.read)
                  = res.warnings
             /\ net' = f
             /\ warnings' = warnings + res.warnings
             /\ kept' = res.kept
             /\ removed' = res.removed
             /\ Ran("exclude_active_contacts", TableIds(Table), TableIds(res.kept))
    /\ pc' = "exclude_active_contacts"
    /\ UNCHANGED << deals, today, uiVars, dedup, dedupe_dropped, crm, phoneVars, rosterVars, wf >>

\* view_old: rows whose td_booking_slot_date is after today are removed
StageFutureBooking ==
    /\ NextStage = "filter_future_booking"
    /\ LET res == filter_future_booking(Table, today)
       IN  /\ kept' = res.kept
           /\ removed' = res.removed
           /\ Ran("filter_future_booking", TableIds(Table), TableIds(res.kept))
    /\ pc' = "filter_future_booking"
    /\ UNCHANGED << deals, today, uiVars, dedup, dedupe_dropped, crm, net, warnings,
                    phoneVars, rosterVars, wf >>

\* deals_f, removed_internal = filter_internal_test_emails(...)
StageInternalTestEmails ==
    /\ NextStage = "filter_internal_test_emails"
    /\ LET res == filter_internal_test_emails(Table)
       IN  /\ kept' = res.kept
           /\ removed' = res.removed
           /\ Ran("filter_internal_test_emails", TableIds(Table), TableIds(res.kept))
    /\ pc' = "filter_internal_test_emails"
    /\ UNCHANGED << deals, today, uiVars, dedup, dedupe_dropped, crm, net, warnings,
                    phoneVars, rosterVars, wf >>

\* dedup, dedupe_dropped = dedupe_users_with_audit(deals_f, use_conducted=...)
StageDedupe ==
    /\ NextStage = "dedupe_users_with_audit"
    /\ dedup' = dedupe_users(Table, wf = "manager", today)
    /\ dedupe_dropped' = dedupe_dropped_rows(Table)
    /\ Ran("dedupe_users_with_audit", TableIds(Table), Identities(dedup'))
    /\ pc' = "dedupe_users_with_audit"
    /\ UNCHANGED << deals, today, uiVars, crm, net, kept, removed, warnings,
                    phoneVars, rosterVars, wf >>

\* view_reminders, step E: round_robin_assign(dedup, selected_associates,
\* seed_date=rem_date) when associates are selected, a keyword the function
\* does not have (TypeError); the two blank columns otherwise
StageAssignAssociates ==
    /\ NextStage = "assign_associates"
    /\ IF associates # << >>
       THEN /\ pc' = "raised"
            /\ Ran("assign_associates", Identities(dedup), {})
            /\ UNCHANGED assigned
       ELSE /\ pc' = "assign_associates"
            /\ assigned' = BlankAssignment(dedup)
            /\ Ran("assign_associates", Identities(dedup), Identities(assigned'))
    /\ UNCHANGED << deals, today, uiVars, dedup, dedupe_dropped, crm, net, kept, removed, warnings,
                    phoneVars, associates, seed_date, wf >>

PipelineNext ==
    \/ StageSmsAlreadySent
    \/ StageActivePurchases
    \/ StageActiveContacts
    \/ StageFutureBooking
    \/ StageInternalTestEmails
    \/ StageDedupe
    \/ StageAssignAssociates

PipelineSpec == FlowInit /\ [][PipelineNext]_vars

\* ------------------------------------------------------------------------
\* The three filters in every order
\* ------------------------------------------------------------------------
FilterNames ==
    { "filter_internal_test_emails", "filter_sms_already_sent", "filter_active_purchases" }

FilterOrders ==
    { order \in [1..3 -> FilterNames] : \A i, j \in 1..3 : i # j => order[i] # order[j] }

\* raw deals one of which each column filter removes
OrderRows ==
    { BaseDeal,
      [BaseDeal EXCEPT !.email = EmailCars24],
      [BaseDeal EXCEPT !.td_reminder_sms_sent = SmsTrue] }

\* tables whose rows differ in the filtered columns and whose CRM deals, and
\* their siblings, differ in appointment and stage
OrderInit ==
    /\ \E n \in 1..MaxFlowDeals, k \in 0..MaxSiblings :
         \E rows \in [1..n -> OrderRows] :
            /\ crm \in { mine \o others : mine \in [1..n -> FlowCrmDeals],
                                          others \in [1..k -> FlowCrmSiblings] }
            /\ deals = [i \in 1..n |->
                          prepare_deals([rows[i] EXCEPT !.hs_object_id = i,
                                                        !.dealstage = crm[i].dealstage])]
    /\ today = 2
    /\ pc = "fetched"
    /\ dedup = << >>
    /\ dedupe_dropped = << >>
    /\ NoFilterRun
    /\ NoPhoneRun
    /\ NoRosterRun
    /\ NoFlowRun
    /\ NoUiRun

\* the three filters applied to the fetched table in one of their orders
ApplyFiltersInOrder ==
    /\ pc = "fetched"
    /\ \E order \in FilterOrders :
         LET run == RunStages(order, deals, crm)
         IN  /\ kept' = run.table
             /\ stages_run' = run.trace
    /\ pc' = "filters_applied"
    /\ UNCHANGED << deals, today, uiVars, dedup, dedupe_dropped, crm, net, removed, warnings,
                    phoneVars, rosterVars, wf >>

OrderNext == ApplyFiltersInOrder

OrderSpec == OrderInit /\ [][OrderNext]_vars

\* ------------------------------------------------------------------------
\* The reminders view: Fetch, Send and the write-back of the flag
\* ------------------------------------------------------------------------
MaxSendDeals == 2

\* raw deals of the CRM: one customer, the same phone with another email,
\* another phone, and no valid phone
SendRows ==
    { BaseDeal,
      [BaseDeal EXCEPT !.email = EmailUpper, !.full_name = NameBob],
      [BaseDeal EXCEPT !.mobile = PhoneOther],
      [BaseDeal EXCEPT !.mobile = NaN, !.phone = PhoneShort] }

\* the CRM record of a raw deal: no appointment and no contact are known
CrmRecord(raw, i) ==
    ("appointment_id" :> "") @@ ("contact" :> "") @@ [raw EXCEPT !.hs_object_id = i]

\* the columns of a CRM record that a search returns
RawDeal(rec) == [f \in DOMAIN BaseDeal |-> rec[f]]

\* the language model does not answer
NoReply == << >>

\* the reminders page before the first Fetch
SendInit ==
    /\ \E n \in 1..MaxSendDeals :
          crm \in { [i \in 1..n |-> CrmRecord(f[i], i)] : f \in [1..n -> SendRows] }
    /\ associates \in {<< >>, SubSeq(RosterEntries, 1, 2)}
    /\ seed_date = DateOf(2025, 1, 1)
    /\ assigned = << >>
    /\ deals = << >>
    /\ today = 2
    /\ pc = "idle"
    /\ dedup = << >>
    /\ dedupe_dropped = << >>
    /\ NoFilterRun
    /\ NoPhoneRun
    /\ NoFlowRun
    /\ NoUiRun

\* no handler is in the middle of its run
HandlerIdle == pc # "sending"

\* view_reminders with "Fetch deals" pressed: the search, the three filters,
\* the dedupe, the assignment columns and the message table, stored in the
\* session, then the phone-to-deals mapping of the render section
FetchReminders ==
    /\ HandlerIdle
    /\ \E search_fails \in BOOLEAN :
          IF search_fails \/ associates # << >>
          THEN \* _hs_post raises out of the search; round_robin_assign is
               \* called with a keyword it does not have
               /\ pc' = "raised in fetch"
               /\ UNCHANGED << deals, kept, removed, warnings, dedup, dedupe_dropped,
                               assigned, sendVars >>
          ELSE LET prepared == [i \in 1..Len(crm) |-> prepare_deals(RawDeal(crm[i]))]
                   not_sent == filter_sms_already_sent(prepared)
                   car      == filter_deals_by_appointment_id_car_active_purchases(
                                   not_sent.kept, crm, NoFailure)
                   internal == filter_internal_test_emails(car.kept)
                   deduped  == dedupe_users(internal.kept, FALSE, today)
                   blank    == BlankAssignment(deduped)
                   built    == build_messages_for_reminders_with_associates(
                                   blank, [g \in 1..Len(blank) |-> NoReply])
               IN  /\ pc' = "fetched"
                   /\ deals' = prepared
                   /\ kept' = internal.kept
                   /\ removed' = not_sent.removed \o car.removed \o internal.removed
                   /\ warnings' = car.warnings
                   /\ dedup' = deduped
                   /\ dedupe_dropped' = dedupe_dropped_rows(internal.kept)
                   /\ assigned' = blank
                   /\ msgs' = built
                   /\ skipped' = << >>
                   /\ phone_to_deals' = get_all_deal_ids_for_contacts(built, internal.kept)
                   /\ to_send' = << >>
                   /\ attempts' = << >>
                   /\ sent' = 0
                   /\ failed' = 0
                   /\ sent_phones' = << >>
                   /\ flag_written' = {}
                   /\ update_success' = 0
                   /\ update_fail' = 0
                   /\ UNCHANGED updated_deals
    /\ UNCHANGED << today, crm, net, phoneVars, associates, seed_date, flowVars, draftVars, pageVars >>

\* "Send SMS" pressed with the rows of ticked selected: nothing is sent when
\* no row is ticked or the Aircall credentials are missing
SendSms ==
    /\ HandlerIdle
    /\ msgs # << >>
    /\ \E ticked \in SUBSET (1..Len(msgs)), configured \in BOOLEAN :
          /\ to_send' = SelectIdx(ticked, Len(msgs))
          /\ pc' = IF ticked = {} THEN "no rows selected"
                   ELSE IF ~configured THEN "missing credentials"
                   ELSE "sending"
    /\ attempts' = << >>
    /\ sent' = 0
    /\ failed' = 0
    /\ sent_phones' = << >>
    /\ flag_written' = {}
    /\ update_success' = 0
    /\ update_fail' = 0
    /\ UNCHANGED << deals, today, crm, net, kept, removed, warnings, dedup, dedupe_dropped,
                    msgs, skipped, phone_to_deals, updated_deals,
                    phoneVars, rosterVars, flowVars, draftVars, pageVars >>

\* one round of the loop over to_send
SendOne ==
    /\ pc = "sending"
    /\ Len(attempts) < Len(to_send)
    /\ \E outcome \in HttpOutcomes :
          LET r   == msgs[to_send[Len(attempts) + 1]]
              res == send_sms_via_aircall(r.Phone, r.Message, outcome)
          IN  IF res.raised
              THEN /\ pc' = "raised in send"
                   /\ UNCHANGED << attempts, sent, failed, sent_phones >>
              ELSE /\ attempts' = Append(attempts, [ row   |-> to_send[Len(attempts) + 1],
                                                    phone |-> r.Phone,
                                                    ok    |-> res.ok ])
                   /\ sent' = IF res.ok THEN sent + 1 ELSE sent
                   /\ failed' = IF res.ok THEN failed ELSE failed + 1
                   /\ sent_phones' = IF res.ok THEN Append(sent_phones, r.Phone)
                                     ELSE sent_phones
                   /\ UNCHANGED pc
    /\ UNCHANGED << deals, today, crm, net, kept, removed, warnings, dedup, dedupe_dropped,
                    msgs, skipped, phone_to_deals, to_send, flag_written, updated_deals,
                    update_success, update_fail,
                    phoneVars, rosterVars, flowVars, draftVars, pageVars >>

\* the phones of the ticked rows, in table order
ToSendPhones == [k \in 1..Len(to_send) |-> msgs[to_send[k]].Phone]

\* after the loop: the deals of the phones sent to are collected and the
\* dict deal_to_email is handed to update_deals_sms_sent
WriteBack ==
    /\ pc = "sending"
    /\ Len(attempts) = Len(to_send)
    /\ LET all_deal_ids == AllDealIds(sent_phones, phone_to_deals)
       IN  IF sent_phones # << >> /\ phone_to_deals # << >> /\ all_deal_ids # << >>
           THEN \E failed_batches \in SUBSET {1} :
                   LET res == update_deals_sms_sent(DealToEmail(ToSendPhones, phone_to_deals),
                                                    crm, failed_batches)
                   IN  /\ pc' = IF res.raised THEN "raised in write-back" ELSE "sent"
                       /\ crm' = res.crm
                       /\ flag_written' = res.written
                       /\ updated_deals' = updated_deals \cup res.written
                       /\ update_success' = res.success
                       /\ update_fail' = res.failure
           ELSE /\ pc' = "sent"
                /\ UNCHANGED << crm, flag_written, updated_deals, update_success,
                                update_fail >>
    /\ UNCHANGED << deals, today, net, kept, removed, warnings, dedup, dedupe_dropped,
                    msgs, skipped, phone_to_deals, to_send, attempts, sent, failed,
                    sent_phones, phoneVars, rosterVars, flowVars, draftVars, pageVars >>

\* update_deals_sms_sent applied to all_deal_ids, the list of the deals of the
\* phones sent to that the handler built, the argument its signature declares
UpdateDealsSmsSent ==
    /\ pc \in {"sent", "raised in write-back"}
    /\ AllDealIds(sent_phones, phone_to_deals) # << >>
    /\ \E failed_batches \in SUBSET {1} :
          LET res == update_deals_sms_sent(PyList(AllDealIds(sent_phones, phone_to_deals)),
                                           crm, failed_batches)
          IN  /\ crm' = res.crm
              /\ flag_written' = res.written
              /\ updated_deals' = updated_deals \cup res.written
              /\ update_success' = res.success
              /\ update_fail' = res.failure
    /\ pc' = "updated"
    /\ UNCHANGED << deals, today, net, kept, removed, warnings, dedup, dedupe_dropped,
                    msgs, skipped, phone_to_deals, to_send, attempts, sent, failed,
                    sent_phones, phoneVars, rosterVars, flowVars, draftVars, pageVars >>

SendNext ==
    \/ FetchReminders
    \/ SendSms
    \/ SendOne
    \/ WriteBack
    \/ UpdateDealsSmsSent

SendSpec == SendInit /\ [][SendNext]_vars

\* ------------------------------------------------------------------------
\* The end of the Fetch handlers: dedupe, drafts, message and skipped tables
\* ------------------------------------------------------------------------
MaxMessageDeals == 2

\* filtered deals of one customer in the four kinds of stage, of a customer
\* with another phone, and of one without a valid phone
MessageRows ==
    { [BaseDeal EXCEPT !.dealstage = st] :
        st \in {STAGE_ENQUIRY_ID, STAGE_BOOKED_ID, STAGE_CONDUCTED_ID, "8082239"} }
    \cup { [BaseDeal EXCEPT !.mobile = PhoneOther, !.full_name = NameBob],
           [BaseDeal EXCEPT !.mobile = NaN, !.phone = PhoneShort, !.email = EmailThird] }

\* a reply that follows the prompt: a short text with the signature asked for
ReplySigned ==
    << "S", "e", "e", " ", "y", "o", "u", " ", "s", "o", "o", "n", " ", "ndash" >>
    \o TeamAtCars24

\* a reply that is one character longer than the prompt allows
ReplyLong == [i \in 1..(SmsLimit + 1) |-> "x"]

\* what the language model may answer to a prompt: nothing, a text within the
\* limit, and for the reminder prompt, which states a limit, a text beyond it
ShortReplies == { NoReply, ReplySigned }

Replies == ShortReplies \cup { ReplyLong }

\* deals_f of a Fetch handler, after its filters
MessageInit ==
    /\ \E n \in 1..MaxMessageDeals :
          deals \in { [i \in 1..n |-> prepare_deals([f[i] EXCEPT !.hs_object_id = i])] :
                        f \in [1..n -> MessageRows] }
    /\ wf \in Workflows
    /\ stages_run = << >>
    /\ associates \in (IF wf = "reminders" THEN {<< >>, SubSeq(RosterEntries, 1, 2)}
                       ELSE {<< >>})
    /\ seed_date = (IF wf = "reminders" THEN DateOf(2025, 1, 1) ELSE NoDateChosen)
    /\ assigned = << >>
    /\ crm = << >>
    /\ today = 2
    /\ pc = "filters_applied"
    /\ dedup = << >>
    /\ dedupe_dropped = << >>
    /\ NoFilterRun
    /\ NoPhoneRun
    /\ NoUiRun

\* view_reminders, steps D to F: the dedupe, the assignment (which raises when
\* associates are selected) and the drafts signed by the associate
BuildRemindersMessages ==
    /\ pc = "filters_applied"
    /\ wf = "reminders"
    /\ LET deduped == dedupe_users(deals, FALSE, today)
           blank   == BlankAssignment(deduped)
       IN  IF associates # << >>
           THEN /\ pc' = "raised"
                /\ UNCHANGED << dedup, dedupe_dropped, assigned, msgs, skipped >>
           ELSE \E replies \in [1..Len(deduped) -> Replies] :
                   /\ pc' = "messages_built"
                   /\ dedup' = deduped
                   /\ dedupe_dropped' = dedupe_dropped_rows(deals)
                   /\ assigned' = blank
                   /\ msgs' = build_messages_for_reminders_with_associates(blank, replies)
                   /\ skipped' = << >>
    /\ UNCHANGED << deals, today, crm, net, kept, removed, warnings, phoneVars,
                    associates, seed_date, flowVars, phone_to_deals, to_send, attempts,
                    sent, failed, sent_phones, flag_written, updated_deals,
                    update_success, update_fail, draftVars, pageVars >>

\* the stage-specific prompt of every message row of an old-lead table
OldLeadPrompts(dedup_df) ==
    LET idx == RowsWithPhone(dedup_df)
    IN  [k \in 1..Len(idx) |->
            oldlead_prompt(StripStr(dedup_df[idx[k]].CustomerName),
                           dedup_df[idx[k]].VehicleDetails,
                           StageHintText(dedup_df[idx[k]]))]

\* view_old, steps 2 and 3: the dedupe and build_messages_with_audit in mode
\* "oldlead"
BuildOldLeadMessages ==
    /\ pc = "filters_applied"
    /\ wf = "old_leads"
    /\ LET deduped == dedupe_users(deals, FALSE, today)
       IN  \E replies \in [1..Len(deduped) -> ShortReplies] :
              LET built == build_messages_with_audit(deduped, "oldlead", replies)
              IN  /\ dedup' = deduped
                  /\ msgs' = built.msgs
                  /\ skipped' = built.skipped
                  /\ prompts' = OldLeadPrompts(deduped)
    /\ dedupe_dropped' = dedupe_dropped_rows(deals)
    /\ pc' = "messages_built"
    /\ UNCHANGED << deals, today, crm, net, kept, removed, warnings, phoneVars,
                    rosterVars, flowVars, phone_to_deals, to_send, attempts,
                    sent, failed, sent_phones, flag_written, updated_deals,
                    update_success, update_fail, pageVars >>

\* view_manager, steps 4 and 5: the dedupe on the conducted columns and
\* build_messages_with_audit in mode "manager"
BuildManagerMessages ==
    /\ pc = "filters_applied"
    /\ wf = "manager"
    /\ LET deduped == dedupe_users(deals, TRUE, today)
       IN  \E replies \in [1..Len(deduped) -> ShortReplies] :
              LET built == build_messages_with_audit(deduped, "manager", replies)
              IN  /\ dedup' = deduped
                  /\ msgs' = built.msgs
                  /\ skipped' = built.skipped
    /\ dedupe_dropped' = dedupe_dropped_rows(deals)
    /\ pc' = "messages_built"
    /\ UNCHANGED << deals, today, crm, net, kept, removed, warnings, phoneVars,
                    rosterVars, flowVars, phone_to_deals, to_send, attempts,
                    sent, failed, sent_phones, flag_written, updated_deals,
                    update_success, update_fail, draftVars, pageVars >>

MessageNext ==
    \/ BuildRemindersMessages
    \/ BuildOldLeadMessages
    \/ BuildManagerMessages

MessageSpec == MessageInit /\ [][MessageNext]_vars

\* ------------------------------------------------------------------------
\* The deal search of the CRM client
\* ------------------------------------------------------------------------
MaxSearchPages == 11

HS_PAGE_LIMIT == 100
HS_TOTAL_CAP  == 1000

\* the caps a search is called with: none, one that is no multiple of the
\* page limit, and the one of the workflows
TotalCaps == { 0, 250, HS_TOTAL_CAP }

\* the numbers of results of a page answered to a request for limit results
PageSizes(limit) == { 0, 1, limit }

\* a page limit that does not look at the cap
page_limit_Uncapped(limit, cap, collected) == limit

\* limit = min(limit, max(0, total_cap - fetched))
page_limit(limit, cap, collected) ==
    LET room == IF cap - collected > 0 THEN cap - collected ELSE 0
    IN  IF limit < room THEN limit ELSE room

\* the page before any search
SearchInit ==
    /\ deals = << >>
    /\ today = 2
    /\ pc = "idle"
    /\ dedup = << >>
    /\ dedupe_dropped = << >>
    /\ crm = << >>
    /\ NoFilterRun
    /\ NoPhoneRun
    /\ NoRosterRun
    /\ NoFlowRun
    /\ NoUiRun

\* hs_search_deals_by_date_property is called: the first _search_once starts
SearchDeals ==
    /\ pc \in {"idle", "search returned", "search raised"}
    /\ total_cap' \in TotalCaps
    /\ date_eq_given' \in BOOLEAN
    /\ search_no' = 1
    /\ fetched' = 0
    /\ after' = FALSE
    /\ requests_made' = 0
    /\ last_request' = NoRequest
    /\ pc' = "searching"
    /\ UNCHANGED << deals, today, dedup, dedupe_dropped, crm, net, kept, removed, warnings,
                    phoneVars, rosterVars, flowVars, sendVars, draftVars, viewVars >>

\* _search_once has left its loop with collected records: the widened search
\* starts when the table is empty and a date_eq_ms was given, the table is
\* returned otherwise
SearchEnds(collected, cursor, made) ==
    IF collected = 0 /\ date_eq_given /\ search_no = 1
    THEN /\ search_no' = 2
         /\ fetched' = 0
         /\ after' = FALSE
         /\ requests_made' = 0
         /\ pc' = "searching"
    ELSE /\ fetched' = collected
         /\ after' = cursor
         /\ requests_made' = made
         /\ pc' = "search returned"
         /\ UNCHANGED search_no

\* the request of this round: its limit, whether it carries a cursor, what was
\* collected before it and its number within the search
SearchRequest(limit) ==
    [limit |-> limit, after |-> after, fetched |-> fetched, page |-> requests_made + 1]

\* one round of the loop of _search_once: the limit, the request, which
\* raises out of the search when it fails, the page and the cursor
SearchPage ==
    /\ pc = "searching"
    /\ requests_made < MaxSearchPages
    /\ LET limit == page_limit(HS_PAGE_LIMIT, total_cap, fetched)
       IN  IF limit <= 0
           THEN /\ SearchEnds(fetched, after, requests_made)
                /\ UNCHANGED last_request
           ELSE \E outcome \in HttpOutcomes :
                   IF outcome # "2xx"
                   THEN /\ pc' = "search raised"
                        /\ requests_made' = requests_made + 1
                        /\ last_request' = SearchRequest(limit)
                        /\ UNCHANGED << search_no, fetched, after >>
                   ELSE \E n \in PageSizes(limit), cursor \in BOOLEAN :
                           /\ last_request' = SearchRequest(limit)
                           /\ IF ~cursor \/ fetched + n >= total_cap
                              THEN SearchEnds(fetched + n, cursor, requests_made + 1)
                              ELSE /\ fetched' = fetched + n
                                   /\ after' = cursor
                                   /\ requests_made' = requests_made + 1
                                   /\ UNCHANGED << pc, search_no >>
    /\ UNCHANGED << deals, today, dedup, dedupe_dropped, crm, net, kept, removed, warnings,
                    phoneVars, rosterVars, flowVars, sendVars, draftVars, viewVars,
                    total_cap, date_eq_given >>

SearchNext == SearchDeals \/ SearchPage

SearchSpec == SearchInit /\ [][SearchNext]_vars

\* ------------------------------------------------------------------------
\* The old-leads and manager views: the run with Fetch and the later runs
\* ------------------------------------------------------------------------
MaxViewDeals == 2

ActiveTitle   == "Removed (active purchase on another deal)"
FutureTitle   == "Removed (future bookings)"
InternalTitle == "Removed by domain filter (cars24.com / yopmail.com)"
DedupeTitle   == "Collapsed during dedupe (duplicates)"
SkippedTitle  == "Skipped while creating SMS"

\* show_removed_table and the "skipped" section: a table is put on screen
\* under its title when it has rows
Section(title, rows) == IF rows = << >> THEN << >> ELSE (title :> rows)

\* the sections every run of the view renders from the session
RenderedFromSession(removed_int, dedupe_drop, msgs_df, skipped_msgs) ==
    Section(InternalTitle, removed_int)
    @@ Section(DedupeTitle, dedupe_drop)
    @@ (IF msgs_df # << >> THEN Section(SkippedTitle, skipped_msgs) ELSE << >>)

\* the two views before their first Fetch, with what the search will return
ViewInit ==
    /\ \E n \in 1..MaxViewDeals :
          \/ /\ deals \in { [i \in 1..n |-> prepare_deals([f[i] EXCEPT !.hs_object_id = i])] :
                              f \in [1..n -> FlowRows] }
             /\ crm = [i \in 1..n |-> [appointment_id |-> "", contact |-> "",
                                       dealstage |-> deals[i].dealstage]]
          \/ /\ crm \in { mine \o others : mine \in [1..n -> FlowCrmDeals],
                                           others \in [1..1 -> FlowCrmSiblings] }
             /\ deals = [i \in 1..n |->
                           prepare_deals([BaseDeal EXCEPT !.hs_object_id = i,
                                                          !.dealstage = crm[i].dealstage])]
    /\ wf \in {"old_leads", "manager"}
    /\ stages_run = << >>
    /\ today = 2
    /\ pc = "idle"
    /\ dedup = << >>
    /\ dedupe_dropped = << >>
    /\ NoFilterRun
    /\ NoPhoneRun
    /\ NoRosterRun
    /\ NoUiRun

\* a run of the view has ended and the page waits for the operator
ViewIdle == pc \in {"idle", "fetched", "rerun"}

\* the language model answers no prompt
NoReplies(dedup_df) == [g \in 1..Len(dedup_df) |-> NoReply]

\* what the end of a Fetch run stores in the session and puts on screen, given
\* the tables removed and shown during the run
StoreAndRender(in_run, all_removed, deals_f, removed_int, use_conducted, mode) ==
    LET deduped == dedupe_users(deals_f, use_conducted, today)
        dropped == dedupe_dropped_rows(deals_f)
        built   == build_messages_with_audit(deduped, mode, NoReplies(deduped))
    IN  /\ kept' = deals_f
        /\ removed' = all_removed
        /\ session_audit' = [removed_internal |-> removed_int]
        /\ dedup' = deduped
        /\ dedupe_dropped' = dropped
        /\ msgs' = built.msgs
        /\ skipped' = built.skipped
        /\ shown' = in_run @@ RenderedFromSession(removed_int, dropped, built.msgs,
                                                  built.skipped)
        /\ to_send' = << >>
        /\ attempts' = << >>
        /\ sent' = 0
        /\ failed' = 0

\* the CRM requests of the contact check that fail, a request that is not made
\* not failing
ContactFailuresOf(deals_df) ==
    {f \in ContactFailures :
       Cardinality({x \in {"d2c", "c2d"} : f[x]}) + Cardinality(f.read)
         = exclude_contacts_with_active_purchases(deals_df, crm, f).warnings}

\* view_old with "Fetch old leads" pressed
FetchOldLeads ==
    /\ ViewIdle
    /\ wf = "old_leads"
    /\ \E f \in ContactFailuresOf(deals) :
          LET active   == exclude_contacts_with_active_purchases(deals, crm, f)
              future   == filter_future_booking(active.kept, today)
              internal == filter_internal_test_emails(future.kept)
          IN  /\ net' = f
              /\ warnings' = active.warnings
              /\ StoreAndRender(Section(ActiveTitle, active.removed)
                                  @@ Section(FutureTitle, future.removed),
                                active.removed \o future.removed \o internal.removed,
                                internal.kept, internal.removed, FALSE, "oldlead")
    /\ pc' = "fetched"
    /\ UNCHANGED << deals, today, crm, phoneVars, rosterVars, flowVars, phone_to_deals,
                    sent_phones, flag_written, updated_deals, update_success,
                    update_fail, draftVars, searchVars >>

\* view_manager with "Fetch deals" pressed
FetchManager ==
    /\ ViewIdle
    /\ wf = "manager"
    /\ \E f \in ContactFailuresOf(deals) :
          LET active   == exclude_contacts_with_active_purchases(deals, crm, f)
              internal == filter_internal_test_emails(active.kept)
          IN  /\ net' = f
              /\ warnings' = active.warnings
              /\ StoreAndRender(Section(ActiveTitle, active.removed),
                                active.removed \o internal.removed,
                                internal.kept, internal.removed, TRUE, "manager")
    /\ pc' = "fetched"
    /\ UNCHANGED << deals, today, crm, phoneVars, rosterVars, flowVars, phone_to_deals,
                    sent_phones, flag_written, updated_deals, update_success,
                    update_fail, draftVars, searchVars >>

\* the outcome counters of a loop over the rows to_send with these answers
SentCount(rows, answers) ==
    Cardinality({k \in 1..Len(rows) :
                   send_sms_via_aircall(msgs[rows[k]].Phone, msgs[rows[k]].Message,
                                        answers[k]).ok})

\* a later run of either view with "Send SMS" pressed: the ticked rows are
\* sent when the credentials are there, and the page is rendered from the
\* session
SendSmsInView ==
    /\ pc \in {"fetched", "rerun"}
    /\ msgs # << >>
    /\ \E ticked \in SUBSET (1..Len(msgs)), configured \in BOOLEAN :
          LET rows == SelectIdx(ticked, Len(msgs))
          IN  /\ to_send' = rows
              /\ IF ticked = {} \/ ~configured
                 THEN /\ attempts' = << >>
                      /\ sent' = 0
                      /\ failed' = 0
                 ELSE \E answers \in [1..Len(rows) -> {"2xx", "timeout"}] :
                         /\ attempts' =
                               [k \in 1..Len(rows) |->
                                  [ row   |-> rows[k],
                                    phone |-> msgs[rows[k]].Phone,
                                    ok    |-> send_sms_via_aircall(
                                                 msgs[rows[k]].Phone,
                                                 msgs[rows[k]].Message, answers[k]).ok ]]
                         /\ sent' = SentCount(rows, answers)
                         /\ failed' = Len(rows) - SentCount(rows, answers)
    /\ shown' = RenderedFromSession(session_audit.removed_internal, dedupe_dropped,
                                    msgs, skipped)
    /\ pc' = "rerun"
    /\ UNCHANGED << deals, today, crm, net, kept, removed, warnings, dedup, dedupe_dropped,
                    phoneVars, rosterVars, flowVars, msgs, skipped, phone_to_deals,
                    sent_phones, flag_written, updated_deals, update_success,
                    update_fail, draftVars, searchVars, session_audit >>

ViewNext ==
    \/ FetchOldLeads
    \/ FetchManager
    \/ SendSmsInView

ViewSpec == ViewInit /\ [][ViewNext]_vars

\* ------------------------------------------------------------------------
\* Properties of the deduplicator
\* ------------------------------------------------------------------------
Deduped == pc \in {"dedupe_users", "dedupe_users_with_audit"}

\* the Normalized Contact Key of a prepared row: (phone, lower-cased email)
ContactKey(r) == << r.phone_norm, LowerStr(StripStr(r.email)) >>

KeyBearing(r) == ContactKey(r) # << << >>, << >> >>

\* the input rows a summary row was built from
SourcesOf(row) == {row.Cars[k].src : k \in 1..Len(row.Cars)}

\* C1: dedupe_users builds no Identity Summary from a keyless record: a row
\* whose normalized phone and trimmed, lower-cased email are both empty
\* contributes to no output row and is counted in no DealsCount.
C1_KeylessDropped ==
    Deduped =>
        \A g \in 1..Len(dedup) :
            /\ \A i \in SourcesOf(dedup[g]) : KeyBearing(deals[i])
            /\ dedup[g].DealsCount =
                 Cardinality({i \in 1..Len(deals) :
                                /\ KeyBearing(deals[i])
                                /\ i \in SourcesOf(dedup[g])})

\* C2: the number of rows returned by dedupe_users equals the number of
\* distinct non-empty contact keys among the input rows.
C2_RowsEqualDistinctKeys ==
    Deduped =>
        Len(dedup) = Cardinality({ContactKey(deals[i]) :
                                    i \in {j \in 1..Len(deals) : KeyBearing(deals[j])}})

\* the representative of input row i: the first input row with the same key
RepOf(i) ==
    CHOOSE j \in 1..i :
        /\ ContactKey(deals[j]) = ContactKey(deals[i])
        /\ \A k \in 1..(j - 1) : ContactKey(deals[k]) # ContactKey(deals[i])

\* the ways a reason can name row r: its name, its phone or its email
NamesOf(r) == {StripStr(r.full_name), r.phone_norm, StripStr(r.email)} \ {<< >>}

C4_ListsAligned ==
    Deduped =>
        \A g \in 1..Len(dedup) :
            LET row == dedup[g]
            IN  \A i \in 1..Len(row.Cars) :
                    /\ i <= Len(row.WhenExact) => row.WhenExact[i].src = row.Cars[i].src
                    /\ i <= Len(row.WhenRel) => row.WhenRel[i].src = row.Cars[i].src

FilterRan ==
    pc \in { "filter_internal_test_emails", "filter_sms_already_sent",
             "filter_active_purchases", "filter_future_booking" }

KeptIds    == {kept[k].hs_object_id : k \in 1..Len(kept)}
RemovedIds == {removed[k].row.hs_object_id : k \in 1..Len(removed)}

\* C7: every filter stage partitions its input: each input row is in exactly
\* one of the kept table and the removed table, so the two lengths add up to
\* the length of the input.
C7_FiltersPartition ==
    FilterRan =>
        /\ Len(kept) + Len(removed) = Len(deals)
        /\ \A i \in 1..Len(deals) :
              Cardinality({k \in 1..Len(kept) : kept[k] = deals[i]})
              + Cardinality({k \in 1..Len(removed) : removed[k].row = deals[i]}) = 1

\* C7 witness: the already-notified filter split a table into both sides
C7_Witness ==
    /\ pc = "filter_sms_already_sent"
    /\ \E k \in 1..Len(removed) : removed[k].row.td_reminder_sms_sent = SmsYes
    /\ \E k \in 1..Len(kept) : kept[k].td_reminder_sms_sent = SmsNo

InputIds == {deals[i].hs_object_id : i \in 1..Len(deals)}

\* the appointment ids carried by input deals
Carried == {crm[d].appointment_id : d \in InputIds} \ {""}

\* some deal of appointment a that is not an input deal is in an active-purchase stage
Conflict(a) ==
    \E d \in 1..Len(crm) :
        /\ d \notin InputIds
        /\ crm[d].appointment_id = a
        /\ crm[d].dealstage \in ACTIVE_PURCHASE_STAGE_IDS

\* the three lookups made for appointment a succeeded, and the single page
\* of the sibling search holds every deal of a
LookupsSucceed(a) ==
    /\ net.read = {}
    /\ a \notin net.search
    /\ net.stage[a] = {}
    /\ Cardinality({d \in 1..Len(crm) : crm[d].appointment_id = a}) <= SearchLimit

LookupFailed(a) ==
    \/ net.read # {}
    \/ a \in net.search
    \/ net.stage[a] # {}

\* C9: the active-purchase filter fails open per missing datum: when a lookup
\* for an appointment id fails, the filter does not raise, shows a warning,
\* keeps the input deals of that appointment id, and still decides the other
\* appointment ids of the batch by their siblings.
C9_FailOpen ==
    pc \in {"filter_active_purchases", "raised"} =>
        /\ pc # "raised"
        /\ \A a \in Carried :
              LookupFailed(a) =>
                 /\ warnings >= 1
                 /\ \A d \in InputIds : crm[d].appointment_id = a => d \in KeptIds
        /\ \A a, b \in Carried :
              (a # b /\ LookupFailed(b) /\ LookupsSucceed(a)) =>
                 \A d \in InputIds :
                    crm[d].appointment_id = a => (d \in RemovedIds <=> Conflict(a))

\* C9 witness: the sibling search of A1 failed although A1 has an active
\* sibling; its deal was kept and the deal of A2 was still removed
C9_Witness ==
    /\ pc = "filter_active_purchases"
    /\ net.search = {"A1"}
    /\ Len(deals) = 2
    /\ crm[1].appointment_id = "A1"
    /\ crm[2].appointment_id = "A2"
    /\ Conflict("A1")
    /\ Conflict("A2")
    /\ KeptIds = {1}
    /\ RemovedIds = {2}
    /\ warnings = 1

InternalTestLower ==
    << "i", "n", "t", "e", "r", "n", "a", "l", "/", "t", "e", "s", "t" >>

\* the part after "@" of the trimmed, lower-cased email; none without an "@"
DomainAfterAt(email) ==
    LET e == LowerStr(StripStr(email))
    IN  IF \E i \in 1..Len(e) : e[i] = "@" THEN LastAtSegment(e) ELSE << >>

\* C10 as stated: the domain filter removes exactly the rows whose email
\* domain, the part after "@", is cars24.com or yopmail.com, and every
\* removed row carries a reason containing "internal/test".
C10_DomainBlacklist ==
    pc = "filter_internal_test_emails" =>
        /\ \A i \in 1..Len(deals) :
              (deals[i].hs_object_id \in RemovedIds)
                 <=> DomainAfterAt(deals[i].email) \in {Cars24Domain, YopmailDomain}
        /\ \A i \in 1..Len(deals) :
              (deals[i].hs_object_id \in KeptIds)
                 <=> DomainAfterAt(deals[i].email) \notin {Cars24Domain, YopmailDomain}
        /\ \A k \in 1..Len(removed) : Contains(removed[k].Reason, InternalTestLower)

\* C10 amended: the filter removes exactly the rows for which the text after
\* the last "@" of the trimmed, lower-cased email, or the whole email when
\* it has no "@", is cars24.com or yopmail.com; every removed row carries
\* the reason "Internal/test email domain", which contains "internal/test"
\* when letter case is ignored.
C10_DomainBlacklistLastSegment ==
    pc = "filter_internal_test_emails" =>
        /\ \A i \in 1..Len(deals) :
              LET blocked == LastAtSegment(LowerStr(StripStr(deals[i].email)))
                                \in {Cars24Domain, YopmailDomain}
              IN  /\ (deals[i].hs_object_id \in RemovedIds) <=> blocked
                  /\ (deals[i].hs_object_id \in KeptIds) <=> ~blocked
        /\ \A k \in 1..Len(removed) :
              /\ removed[k].Reason = InternalReason
              /\ Contains(LowerStr(removed[k].Reason), InternalTestLower)

\* C10 witness: an upper-case, padded cars24 address and a bare "cars24.com"
\* were removed; an address with cars24.com before the "@" was kept
C10_Witness ==
    /\ pc = "filter_internal_test_emails"
    /\ \E k \in 1..Len(removed) : removed[k].row.email = EmailCars24
    /\ \E k \in 1..Len(removed) : removed[k].row.email = EmailNoAt
    /\ \E k \in 1..Len(kept) : kept[k].email = EmailLocalC24

\* ------------------------------------------------------------------------
\* Properties of the already-notified filter
\* ------------------------------------------------------------------------
\* s is token up to the case of its letters
EqualsIgnoringCase(s, token) ==
    /\ Len(s) = Len(token)
    /\ \A i \in 1..Len(s) :
         \/ s[i] = token[i]
         \/ \E k \in 1..Len(LowerChars) : LowerChars[k] = token[i] /\ UpperChars[k] = s[i]

TruthyFlag(flag) ==
    /\ flag # NaN
    /\ \/ EqualsIgnoringCase(flag, << "t", "r", "u", "e" >>)
       \/ EqualsIgnoringCase(flag, << "y", "e", "s" >>)

\* C11: the already-notified filter removes a record if and only if its
\* 'reminder sent' flag is 'true' or 'yes' in any letter case; a flag of 'no',
\* an empty flag and a missing flag keep the record.
C11_RemovedIffFlagTruthy ==
    pc = "filter_sms_already_sent" =>
        \A i \in 1..Len(deals) :
            /\ deals[i].hs_object_id \in RemovedIds <=> TruthyFlag(deals[i].td_reminder_sms_sent)
            /\ deals[i].hs_object_id \in KeptIds <=> ~TruthyFlag(deals[i].td_reminder_sms_sent)
            /\ deals[i].td_reminder_sms_sent \in {SmsNo, SmsEmpty, NaN}
                 => deals[i].hs_object_id \in KeptIds
            /\ deals[i].td_reminder_sms_sent \in {SmsTrue, SmsYes, SmsUpper}
                 => deals[i].hs_object_id \in RemovedIds

\* a run that removes a 'Yes' row and keeps a 'no' row and an empty-flag row
C11_Witness ==
    /\ pc = "filter_sms_already_sent"
    /\ \E i, j, k \in 1..Len(deals) :
         /\ deals[i].td_reminder_sms_sent = SmsYes
         /\ deals[i].hs_object_id \in RemovedIds
         /\ deals[j].td_reminder_sms_sent = SmsNo
         /\ deals[j].hs_object_id \in KeptIds
         /\ deals[k].td_reminder_sms_sent = SmsEmpty
         /\ deals[k].hs_object_id \in KeptIds

\* ------------------------------------------------------------------------
\* Properties of the assignment
\* ------------------------------------------------------------------------
\* the position of an assigned row in the deduped table
PosInDedup(row) == CHOOSE k \in 1..Len(dedup) : IdentityOf(dedup[k]) = IdentityOf(row)

SeedOf(d) == d.year * 10000 + d.month * 100 + d.day

\* C17: with a non-empty list of M associates and the date d, the identities
\* are sorted by (Phone, CustomerName) ascending, rows that tie keep their
\* input order, and the row at sorted position i (from 0) gets the associate
\* at index (offset + i) mod M, offset = (year*10000 + month*100 + day) mod M.
C17_SortedRotatingAssignment ==
    (pc = "round_robin_assign" /\ associates # << >> /\ dedup # << >>) =>
        LET M      == Len(associates)
            offset == SeedOf(seed_date) % M
        IN  /\ Len(assigned) = Len(dedup)
            /\ {IdentityOf(assigned[i]) : i \in 1..Len(assigned)}
                 = {IdentityOf(dedup[i]) : i \in 1..Len(dedup)}
            /\ \A i, j \in 1..Len(assigned) :
                 i < j =>
                   /\ ~StrLess(assigned[j].Phone, assigned[i].Phone)
                   /\ assigned[j].Phone = assigned[i].Phone
                        => ~StrLess(assigned[j].CustomerName, assigned[i].CustomerName)
                   /\ (/\ assigned[j].Phone = assigned[i].Phone
                       /\ assigned[j].CustomerName = assigned[i].CustomerName)
                        => PosInDedup(assigned[i]) < PosInDedup(assigned[j])
            /\ \A i \in 1..Len(assigned) :
                 /\ assigned[i].SalesAssociate = associates[((offset + i - 1) % M) + 1].name
                 /\ assigned[i].SalesEmail = associates[((offset + i - 1) % M) + 1].email

\* a run that reorders the table, keeps a tie in input order and starts the
\* rotation behind the first associate
C17_Witness ==
    /\ pc = "round_robin_assign"
    /\ Len(associates) >= 2
    /\ SeedOf(seed_date) % Len(associates) # 0
    /\ Len(dedup) >= 3
    /\ IdentityOf(assigned[1]) # IdentityOf(dedup[1])
    /\ \E i \in 1..(Len(assigned) - 1) :
         /\ assigned[i].Phone = assigned[i + 1].Phone
         /\ assigned[i].CustomerName = assigned[i + 1].CustomerName
    /\ assigned[1].SalesAssociate # associates[1].name

\* C19: with N identities and M associates, N >= M, every associate gets at
\* least floor(N / M) identities, whatever the date.
C19_EveryAssociateGetsShare ==
    (pc = "round_robin_assign" /\ associates # << >> /\ Len(dedup) >= Len(associates)) =>
        \A a \in 1..Len(associates) :
            Cardinality({i \in 1..Len(assigned) :
                           assigned[i].SalesEmail = associates[a].email})
              >= Len(dedup) \div Len(associates)

\* three identities shared among two associates, the rotation starting at the second
C19_Witness ==
    /\ pc = "round_robin_assign"
    /\ Len(associates) = 2
    /\ Len(dedup) = 3
    /\ SeedOf(seed_date) % 2 = 1
    /\ Cardinality({i \in 1..3 : assigned[i].SalesEmail = associates[2].email}) = 2

Normalized == pc \in {"normalize_phone", "normalize_phone_again"}

NineDigits(s) == Len(s) = 9 /\ \A k \in 1..9 : s[k] \in DigitChars

HasLeadingPlus(raw) ==
    \E k \in 1..Len(raw) : raw[k] = "+" /\ \A j \in 1..(k - 1) : raw[j] = " "

\* the digits of the input behind its leading '+', if it has one
Cleaned(raw) ==
    (IF HasLeadingPlus(raw) THEN << "+" >> ELSE << >>)
      \o SelectSeq(raw, LAMBDA ch : ch \in DigitChars)

\* what the four accepted shapes make of the cleaned input
ExpectedPhone(raw) ==
    IF raw = NaN THEN << >>
    ELSE LET c == Cleaned(raw)
             n == Len(c)
         IN  IF n = 12 /\ SubSeq(c, 1, 3) = << "+", "6", "1" >> /\ NineDigits(SubSeq(c, 4, 12))
             THEN c
             ELSE IF n = 11 /\ SubSeq(c, 1, 2) = << "6", "1" >> /\ NineDigits(SubSeq(c, 3, 11))
             THEN << "+" >> \o c
             ELSE IF n = 10 /\ c[1] = "0" /\ NineDigits(SubSeq(c, 2, 10)) /\ c[2] = "4"
             THEN << "+", "6", "1" >> \o SubSeq(c, 2, 10)
             ELSE IF NineDigits(c) /\ c[1] = "4"
             THEN << "+", "6", "1" >> \o c
             ELSE << >>

C16_Idempotent ==
    pc = "normalize_phone_again" => phone_again = phone_out

\* a number that the first application changed and the second left alone
C16_Witness ==
    /\ pc = "normalize_phone_again"
    /\ phone_raw = PhoneNoPlus
    /\ phone_out = PhonePlus
    /\ phone_again = PhonePlus

\* ------------------------------------------------------------------------
\* Properties of the order of the stages
\* ------------------------------------------------------------------------
StagesRun == [k \in 1..Len(stages_run) |-> stages_run[k].stage]

IsPrefix(s, t) == Len(s) <= Len(t) /\ s = SubSeq(t, 1, Len(s))

KeptInHandlerOrder ==
    TableIds(RunStages(<< "filter_sms_already_sent", "filter_active_purchases",
                          "filter_internal_test_emails" >>, deals, crm).table)

NoInputDealInPurchase ==
    \A i \in 1..Len(deals) :
        crm[deals[i].hs_object_id].dealstage \notin ACTIVE_PURCHASE_STAGE_IDS

SendEnded == pc \in {"sent", "raised in write-back"}

\* the deals of the fetched table whose phone is one of a list of phones
DealsOfPhones(phones) ==
    {kept[i].hs_object_id : i \in {j \in 1..Len(kept) :
                                     \E k \in 1..Len(phones) : phones[k] = kept[j].phone_norm}}

AttemptedInOrder ==
    /\ Len(attempts) <= Len(to_send)
    /\ \A k \in 1..Len(attempts) : attempts[k].row = to_send[k]
    /\ \A k \in 1..(Len(to_send) - 1) : to_send[k] < to_send[k + 1]

\* every ticked row was attempted and counted
AllAttempted == Len(attempts) = Len(to_send) /\ sent + failed = Len(to_send)

DealsBehind(tbl) ==
    {kept[i].hs_object_id : i \in {j \in 1..Len(kept) : kept[j].phone_norm \in PhonesOf(tbl)}}

\* the already-notified filter of the last Fetch removed deal d
RemovedAsNotified(d) ==
    \E i \in 1..Len(removed) :
       removed[i].row.hs_object_id = d /\ removed[i].Reason = SmsSentReason

RowsOfPhone(p) == {k \in 1..Len(msgs) : msgs[k].Phone = p}

\* the distinct trimmed, lower-cased emails of the kept deals with phone p
EmailsOfPhone(p) == {email_l(kept[i]) : i \in {j \in 1..Len(kept) : kept[j].phone_norm = p}}

\* the SMS calls of the Send that went to phone p
AttemptsTo(p) == {k \in 1..Len(attempts) : attempts[k].phone = p}

\* a Send with every row of the message table ticked has run its loop
SentAllRows == SendEnded /\ Len(to_send) = Len(msgs)

MessagesBuilt == pc = "messages_built"

\* the identities of the deduped table without a valid phone
NoPhoneRows == {g \in 1..Len(dedup) : StripStr(dedup[g].Phone) = << >>}

\* the "skipped" table lists identity g with a reason
Skipped(g) ==
    \E k \in 1..Len(skipped) :
       /\ skipped[k].Customer = dedup[g].CustomerName
       /\ skipped[k].Email = dedup[g].Email
       /\ skipped[k].Reason # << >>

\* C24: in every workflow a deduped identity without a valid phone gets no
\* message row and appears in the "skipped" audit table with a reason.
C24_NoPhoneIdentityIsSkipped ==
    MessagesBuilt =>
       /\ \A k \in 1..Len(msgs) : msgs[k].Phone # << >>
       /\ Len(msgs) = Len(dedup) - Cardinality(NoPhoneRows)
       /\ \A g \in NoPhoneRows : Skipped(g)

\* ' –{associate}', the signature the prompt asks for
AssociateSignature(associate_name) == << " ", "ndash" >> \o SignerOf(associate_name)

\* C26: draft_sms_reminder_associate returns a body of at most 400 characters
\* that ends with the signature of the assigned associate, whether the text is
\* the reply of the language model or the fallback.
C26_DraftClippedAndSigned ==
    (MessagesBuilt /\ wf = "reminders") =>
       \A k \in 1..Len(msgs) :
          /\ Len(msgs[k].Message) <= SmsLimit
          /\ EndsWith(msgs[k].Message, AssociateSignature(msgs[k].SalesAssociate))

\* C27: the stage-specific context and call-to-action of an old-lead draft
\* are those of the StageHint of the identity, whatever the stages of the
\* deals of its group and their order.
C27_PromptFollowsStageHint ==
    (MessagesBuilt /\ wf = "old_leads") =>
       \A k \in 1..Len(prompts) :
          LET hint == StageHintText(dedup[RowsWithPhone(dedup)[k]])
          IN  /\ prompts[k].context = OldLeadContext(hint)
              /\ prompts[k].ask = OldLeadAsk(hint)
              /\ prompts[k].stage_specific_action = OldLeadAction(hint)

\* C23: a CRM call of a Fetch that fails with a network error, a timeout or a
\* non-2xx answer raises no exception out of the client function; here the
\* deal search: it never ends in the exception of a failed request.
C23_SearchFailureIsCaught == pc # "search raised"

ExcludedRows ==
    {i \in 1..Len(removed) : removed[i].Reason \in {ContactReason, FutureReason}}

\* row i of the removed rows is on screen in one of the audit tables
OnScreen(i) ==
    \E t \in DOMAIN shown : \E k \in 1..Len(shown[t]) : shown[t][k] = removed[i]

\* row i of the removed rows is in an audit table stored in the session
InSession(i) ==
    \E k \in 1..Len(session_audit.removed_internal) :
       session_audit.removed_internal[k] = removed[i]

\* C28: in the manager and old-leads views the records removed by the
\* active-purchase exclusion and by the future-booking exclusion are, with
\* their reasons, in an audit table stored with the results of the Fetch, and
\* on screen after the Fetch and after every later run of the view.
C28_ExcludedRowsStayVisible ==
    pc \in {"fetched", "rerun"} /\ wf \in {"old_leads", "manager"} =>
       \A i \in ExcludedRows : OnScreen(i) /\ (pc = "rerun" => InSession(i))

====
